---- MODULE Spec2Model ----
(***************************************************************************)
(* The per-sender conversation engine of Wa-Bot: MessageHandler            *)
(* (src/src/handlers/message.ts), the idle-session sweep                   *)
(* (src/src/plugins/sessionManager.ts), the session store helpers          *)
(* (src/src/plugins/delivery.ts, lines 227-247) and the order ledger       *)
(* (src/src/services/orderService.ts).                                     *)
(*                                                                         *)
(* MessageHandler is an async function that the messages.upsert listener   *)
(* calls without awaiting it.  Each `await` is a suspension point: the     *)
(* code between two awaits runs atomically (one action of this module) and *)
(* a suspended invocation is an element of `handlers`, resumed by a later  *)
(* action with the outcome of the awaited call.  A send that is followed   *)
(* by `return` only is folded into the action that issues it: its outcome  *)
(* changes no state.                                                       *)
(*                                                                         *)
(* Text is a tuple of one-character strings.  Time is counted in units of  *)
(* 30 minutes.  JavaScript's undefined/null is Undefined for text, Null    *)
(* for numbers and the stage "absent" for a deleted map entry.             *)
(***************************************************************************)
EXTENDS Integers, Sequences, FiniteSets, Bags, TLC

\* ------------------------------------------------------------------ bounds

\* Inbound messages that are not the cooperative sender's next one.
MaxStray == 1
\* The clock stops advancing here.
MaxTime == 3
\* The nested invocations of MessageHandler are counted up to here.
MaxDepth == 3
\* The ledger operations are exercised on ledgers of up to this many orders.
MaxOrders == 2

\* --------------------------------------------------------------- constants

\* sessionManager.ts:13, the default '30' of SESSION_INACTIVITY_TIMEOUT, in
\* units of 30 minutes.
DefaultTimeout == 1
\* message.ts:527, the literal 30 * 60 * 1000, in units of 30 minutes.
WelcomeTimeout == 1

Senders == {"a", "b"}
\* message.ts:361-363, the operator's jid (PAYMENT_NUMBER).
targetJid == "operator"

Null == -1
Undefined == <<"undefined">>

SI == <<"s", "i">>
NO == <<"n", "o">>
XX == <<"x">>
NoContent == <<>>

\* What an inbound message carries: message.content and
\* rawMessage.message.imageMessage (with its jpegThumbnail).
Messages ==
  { [content |-> c, image |-> FALSE] : c \in {SI, NO, XX} }
    \cup { [content |-> NoContent, image |-> TRUE] }

\* The costs the delivery-cost service answers with (result.costo).
Costs == {5}
MapPath == <<"m">>
ReceiptPath == <<"r">>

\* ------------------------------------------------------------------- text

lower(ch) ==
  CASE ch = "S" -> "s" [] ch = "I" -> "i" [] ch = "N" -> "n" [] ch = "O" -> "o"
    [] ch = "X" -> "x" [] ch = "L" -> "l" [] ch = "A" -> "a" [] ch = "G" -> "g"
    [] ch = "Í" -> "í" [] ch = "Ó" -> "ó"
    [] OTHER -> ch

\* NFD decomposition followed by the removal of U+0300..U+036F.
stripAccent(ch) ==
  CASE ch = "í" -> "i" [] ch = "ó" -> "o" [] ch = "á" -> "a"
    [] OTHER -> ch

\* delivery.ts:243-245
normalizeText(text) ==
  IF text = Undefined THEN <<>>
  ELSE [i \in 1..Len(text) |-> stripAccent(lower(text[i]))]

\* String.prototype.includes
includes(hay, needle) ==
  \E i \in 0..(Len(hay) - Len(needle)) :
    \A j \in 1..Len(needle) : hay[i + j] = needle[j]

RECURSIVE trimStart(_)
trimStart(t) ==
  IF t # <<>> /\ Head(t) = " " THEN trimStart(Tail(t)) ELSE t

RECURSIVE trimEnd(_)
trimEnd(t) ==
  IF t # <<>> /\ t[Len(t)] = " " THEN trimEnd(SubSeq(t, 1, Len(t) - 1)) ELSE t

\* message.content?.trim() || ""
trimmed(content) == trimEnd(trimStart(content))

\* message.ts:115 (and 203, 256)
isSi(content) ==
  content \in {<<"s", "i">>, <<"S", "i">>, <<"S", "I">>, <<"s", "I">>}

\* message.ts:119 (and 234, 265)
isNo(content) ==
  content \in {<<"n", "o">>, <<"N", "o">>, <<"N", "O">>, <<"n", "O">>}

\* ---------------------------------------------------------------- catalog

\* The rows of data.json (ProductDataType); a spreadsheet cell left empty
\* is null (spreadsheetServices.js:26), here Undefined.
NoProduct ==
  [ID |-> Undefined, Nombre |-> Undefined, Descripcion |-> Undefined, Precio |-> Null]

data ==
  << [ID |-> <<"1">>, Nombre |-> <<"S", "i", "l", "l", "a">>,
      Descripcion |-> <<"a", "l", "t", "a">>, Precio |-> 10],
     [ID |-> <<"2">>, Nombre |-> <<"N", "o", "g", "a", "l">>,
      Descripcion |-> Undefined, Precio |-> Null] >>

\* String(value) of message.ts:299-301: String(null) is "null".
String(value) ==
  IF value = Undefined THEN <<"n", "u", "l", "l">> ELSE value

\* message.ts:298-302, the predicate of data.find
matches(item, response) ==
  \/ includes(normalizeText(String(item.Nombre)), response)
  \/ includes(normalizeText(String(item.Descripcion)), response)
  \/ includes(normalizeText(String(item.ID)), response)

\* message.ts:298, Array.prototype.find: the first row that matches, or
\* NoProduct for undefined.
find(response) ==
  IF \E i \in 1..Len(data) : matches(data[i], response)
  THEN data[CHOOSE i \in 1..Len(data) :
              /\ matches(data[i], response)
              /\ \A k \in 1..(i - 1) : ~matches(data[k], response)]
  ELSE NoProduct

\* ------------------------------------------------------------------ state

VARIABLES
  awaitingConfirmation,  \* sender -> FormState, "true" or absent
  awaitingPayment,       \* sender -> "true" or "absent"
  awaitingProduct,       \* sender -> "true", "false" or "absent"
  selectedProduct,       \* sender -> catalog row or NoProduct
  formData,              \* sender -> the pending-payment record
  sessions,              \* the in-memory copy of sessions.json
  sessionsFile,          \* sessions.json: sender -> lastTime or Null
  ordersFile,            \* orders.json: the sequence of orders
  handlers,              \* the suspended MessageHandler invocations (a bag)
  sweep,                 \* the suspended checkExpiredSessions invocation
  now,                   \* Date.now()
  sent,                  \* the sends issued by the last step, in order
  strays,                \* the number of stray inbound messages so far
  script,                \* the walk so far: its messages and its quote
  owed,                  \* sender -> a "si" at FinalConfirm has no order yet
  evicted,               \* the senders a sweep evicted and not heard of since
  INACTIVITY_TIMEOUT     \* sessionManager.ts:13, read from the environment

vars ==
  << awaitingConfirmation, awaitingPayment, awaitingProduct, selectedProduct,
     formData, sessions, sessionsFile, ordersFile, handlers, sweep, now, sent,
     strays, script, owed, evicted, INACTIVITY_TIMEOUT >>

\* FormState (message.ts:17-26); the stage "absent" is a deleted entry of
\* awaitingConfirmation and the stage "true" is the literal true that the
\* product stage stores (message.ts:339).
AbsentConf ==
  [stage |-> "absent", name |-> Undefined, idNumber |-> Undefined,
   barrio |-> Undefined, address |-> Undefined, city |-> Undefined,
   deliveryCost |-> Null, mapImagePath |-> Undefined]

TrueConf == [AbsentConf EXCEPT !.stage = "true"]

FormStages ==
  {"basicName", "basicId", "basicConfirmation", "addressBarrio",
   "addressAddress", "addressCity", "finalConfirmation"}

isForm(conf) == conf.stage \in FormStages

\* An entry of formData (message.ts:45-54); present = FALSE is a deleted one.
AbsentFormData ==
  [present |-> FALSE, name |-> Undefined, idNumber |-> Undefined,
   barrio |-> Undefined, address |-> Undefined, city |-> Undefined,
   deliveryCost |-> Null]

\* A suspended MessageHandler invocation: its sender, the await it is
\* suspended at and the locals it reads afterwards.  stale: the FormState
\* object it holds (formState) is no longer the one awaitingConfirmation
\* holds; formDataItem and productData are the payment stage's locals.
Handler(s, pc) ==
  [s |-> s, pc |-> pc, stale |-> FALSE, formDataItem |-> AbsentFormData,
   productData |-> NoProduct]

IdleSweep == [pc |-> "idle", expired |-> {}, todo |-> {}]

\* A call that leaves the process: bot.sendMessage, bot.relayMessage or the
\* POST to the delivery-cost service, with what the claims read of its body.
Msg(to, kind, body) == [to |-> to, kind |-> kind, body |-> body]

\* message.ts:65-78, delivery.ts:231, sessionManager.ts:13, and no
\* orders.json, no sessions.json; configured is what
\* SESSION_INACTIVITY_TIMEOUT may be set to.
InitWith(configured) ==
  /\ awaitingConfirmation = [s \in Senders |-> AbsentConf]
  /\ awaitingPayment = [s \in Senders |-> "absent"]
  /\ awaitingProduct = [s \in Senders |-> "absent"]
  /\ selectedProduct = [s \in Senders |-> NoProduct]
  /\ formData = [s \in Senders |-> AbsentFormData]
  /\ sessions = [s \in Senders |-> Null]
  /\ sessionsFile = [s \in Senders |-> Null]
  /\ ordersFile = <<>>
  /\ handlers = EmptyBag
  /\ sweep = IdleSweep
  /\ now = 1
  /\ sent = <<>>
  /\ strays = 0
  /\ script = <<>>
  /\ owed = [s \in Senders |-> FALSE]
  /\ evicted = {}
  /\ INACTIVITY_TIMEOUT \in configured

\* SESSION_INACTIVITY_TIMEOUT is not set.
Init == InitWith({DefaultTimeout})

\* ----------------------------------------------------------- the handlers

suspend(h) == handlers (+) SetToBag({h})
resume(h) == handlers (-) SetToBag({h})

\* The invocations of sender s that hold its FormState object lose it when
\* awaitingConfirmation[s] is deleted or assigned another value.
detach(bag, s) ==
  LET f(h) == IF h.s = s /\ h.pc \in {"quote", "map"}
              THEN [h EXCEPT !.stale = TRUE] ELSE h
      hs == BagToSet(bag)
      img == {f(h) : h \in hs}
  IN IF \A h \in hs : f(h) = h THEN bag
     ELSE [g \in img |-> LET pre == {h \in hs : f(h) = g}
                             RECURSIVE sum(_)
                             sum(S) == IF S = {} THEN 0
                                       ELSE LET x == CHOOSE x \in S : TRUE
                                            IN bag[x] + sum(S \ {x})
                         IN sum(pre)]

\* message.ts:86-91, with awaitingProduct[sender] as given
stageWith(s, awaitingProductOfS) ==
  IF awaitingConfirmation[s].stage # "absent" THEN "confirmation"
  ELSE IF awaitingPayment[s] = "true" THEN "payment"
  ELSE IF awaitingProductOfS = "true" THEN "product"
  ELSE "new"

\* message.ts:86-91
stageOf(s) == stageWith(s, awaitingProduct[s])

\* message.ts:100-138, the stages that store the message's text in a field
\* and move on to the next stage.
basicName(s, m, formState) ==
  /\ formState.stage = "basicName"
  /\ awaitingConfirmation' = [awaitingConfirmation EXCEPT ![s] =
       [formState EXCEPT !.name = trimmed(m.content), !.stage = "basicId"]]
  /\ sent' = <<Msg(s, "askId", <<>>)>>
  /\ UNCHANGED <<awaitingPayment, awaitingProduct, selectedProduct, formData,
                 sessions, sessionsFile, ordersFile, handlers>>

basicId(s, m, formState) ==
  /\ formState.stage = "basicId"
  /\ awaitingConfirmation' = [awaitingConfirmation EXCEPT ![s] =
       [formState EXCEPT !.idNumber = trimmed(m.content),
                         !.stage = "basicConfirmation"]]
  /\ sent' = <<Msg(s, "confirmBasics", <<formState.name, trimmed(m.content)>>)>>
  /\ UNCHANGED <<awaitingPayment, awaitingProduct, selectedProduct, formData,
                 sessions, sessionsFile, ordersFile, handlers>>

\* basicConfirmation as it would be if a reply that is neither "si" nor
\* "no" sent the sender back to the name as well.
basicConfirmationRestarts(s, m, formState) ==
  /\ formState.stage = "basicConfirmation"
  /\ IF isSi(m.content)
     THEN /\ awaitingConfirmation' = [awaitingConfirmation EXCEPT ![s] =
               [formState EXCEPT !.stage = "addressBarrio"]]
          /\ sent' = <<Msg(s, "askBarrio", <<>>)>>
     ELSE IF isNo(m.content)
     THEN /\ awaitingConfirmation' = [awaitingConfirmation EXCEPT ![s] =
               [formState EXCEPT !.stage = "basicName"]]
          /\ sent' = <<Msg(s, "askNameAgain", <<>>)>>
     ELSE /\ awaitingConfirmation' = [awaitingConfirmation EXCEPT ![s] =
               [formState EXCEPT !.stage = "basicName"]]
          /\ sent' = <<Msg(s, "onlySiNo", <<>>)>>
  /\ UNCHANGED <<awaitingPayment, awaitingProduct, selectedProduct, formData,
                 sessions, sessionsFile, ordersFile, handlers>>

\* message.ts:114-126
basicConfirmation(s, m, formState) ==
  /\ formState.stage = "basicConfirmation"
  /\ IF isSi(m.content)
     THEN /\ awaitingConfirmation' = [awaitingConfirmation EXCEPT ![s] =
               [formState EXCEPT !.stage = "addressBarrio"]]
          /\ sent' = <<Msg(s, "askBarrio", <<>>)>>
     ELSE IF isNo(m.content)
     THEN /\ awaitingConfirmation' = [awaitingConfirmation EXCEPT ![s] =
               [formState EXCEPT !.stage = "basicName"]]
          /\ sent' = <<Msg(s, "askNameAgain", <<>>)>>
     ELSE /\ UNCHANGED awaitingConfirmation
          /\ sent' = <<Msg(s, "onlySiNo", <<>>)>>
  /\ UNCHANGED <<awaitingPayment, awaitingProduct, selectedProduct, formData,
                 sessions, sessionsFile, ordersFile, handlers>>

addressBarrio(s, m, formState) ==
  /\ formState.stage = "addressBarrio"
  /\ awaitingConfirmation' = [awaitingConfirmation EXCEPT ![s] =
       [formState EXCEPT !.barrio = trimmed(m.content),
                         !.stage = "addressAddress"]]
  /\ sent' = <<Msg(s, "askAddress", <<>>)>>
  /\ UNCHANGED <<awaitingPayment, awaitingProduct, selectedProduct, formData,
                 sessions, sessionsFile, ordersFile, handlers>>

addressAddress(s, m, formState) ==
  /\ formState.stage = "addressAddress"
  /\ awaitingConfirmation' = [awaitingConfirmation EXCEPT ![s] =
       [formState EXCEPT !.address = trimmed(m.content),
                         !.stage = "addressCity"]]
  /\ sent' = <<Msg(s, "askCity", <<>>)>>
  /\ UNCHANGED <<awaitingPayment, awaitingProduct, selectedProduct, formData,
                 sessions, sessionsFile, ordersFile, handlers>>

\* message.ts:137-146: the city is stored and the delivery-cost call is
\* issued with the address, barrio and city the object holds; the
\* invocation is suspended at `await axios.post`.
addressCity(s, m, formState) ==
  /\ formState.stage = "addressCity"
  /\ awaitingConfirmation' = [awaitingConfirmation EXCEPT ![s] =
       [formState EXCEPT !.city = trimmed(m.content)]]
  /\ handlers' = suspend(Handler(s, "quote"))
  /\ sent' = <<Msg("api", "calculate",
                   <<formState.address, formState.barrio, trimmed(m.content)>>)>>
  /\ UNCHANGED <<awaitingPayment, awaitingProduct, selectedProduct, formData,
                 sessions, sessionsFile, ordersFile>>

\* message.ts:204-211
snapshot(formState) ==
  [present |-> TRUE, name |-> formState.name, idNumber |-> formState.idNumber,
   barrio |-> formState.barrio, address |-> formState.address,
   city |-> formState.city, deliveryCost |-> formState.deliveryCost]

\* finalConfirmation as it would be if its "no" branch kept
\* selectedProduct[sender] and formData[sender] (message.ts:237-238 left out).
finalConfirmationKeeps(s, m, formState) ==
  /\ formState.stage = "finalConfirmation"
  /\ IF isSi(m.content)
     THEN /\ formData' = [formData EXCEPT ![s] = snapshot(formState)]
          /\ handlers' = suspend(Handler(s, "paysend"))
          /\ sent' = <<Msg(s, "payInstructions", <<>>)>>
          /\ UNCHANGED <<awaitingConfirmation, awaitingProduct, selectedProduct>>
     ELSE IF isNo(m.content)
     THEN /\ awaitingConfirmation' = [awaitingConfirmation EXCEPT ![s] = AbsentConf]
          /\ awaitingProduct' = [awaitingProduct EXCEPT ![s] = "true"]
          /\ handlers' = detach(handlers, s)
          /\ sent' = <<Msg(s, "askProductAgain", <<>>)>>
          /\ UNCHANGED <<selectedProduct, formData>>
     ELSE /\ sent' = <<Msg(s, "onlySiNo", <<>>)>>
          /\ UNCHANGED <<awaitingConfirmation, awaitingProduct, selectedProduct,
                         formData, handlers>>
  /\ UNCHANGED <<awaitingPayment, sessions, sessionsFile, ordersFile>>

\* message.ts:202-252.  On "si" formData[sender] is written and the
\* invocation is suspended at the send of the payment instructions.
finalConfirmation(s, m, formState) ==
  /\ formState.stage = "finalConfirmation"
  /\ IF isSi(m.content)
     THEN /\ formData' = [formData EXCEPT ![s] = snapshot(formState)]
          /\ handlers' = suspend(Handler(s, "paysend"))
          /\ sent' = <<Msg(s, "payInstructions", <<>>)>>
          /\ UNCHANGED <<awaitingConfirmation, awaitingProduct, selectedProduct>>
     ELSE IF isNo(m.content)
     THEN /\ awaitingConfirmation' = [awaitingConfirmation EXCEPT ![s] = AbsentConf]
          /\ selectedProduct' = [selectedProduct EXCEPT ![s] = NoProduct]
          /\ formData' = [formData EXCEPT ![s] = AbsentFormData]
          /\ awaitingProduct' = [awaitingProduct EXCEPT ![s] = "true"]
          /\ handlers' = detach(handlers, s)
          /\ sent' = <<Msg(s, "askProductAgain", <<>>)>>
     ELSE /\ sent' = <<Msg(s, "onlySiNo", <<>>)>>
          /\ UNCHANGED <<awaitingConfirmation, awaitingProduct, selectedProduct,
                         formData, handlers>>
  /\ UNCHANGED <<awaitingPayment, sessions, sessionsFile, ordersFile>>

\* simpleConfirmation as it would be if every reply other than "si" were
\* taken for a "no" (the test of message.ts:265 left out).
simpleConfirmationLenient(s, m) ==
  /\ ~isForm(awaitingConfirmation[s])
  /\ IF isSi(m.content)
     THEN /\ awaitingConfirmation' = [awaitingConfirmation EXCEPT ![s] =
               [AbsentConf EXCEPT !.stage = "basicName"]]
          /\ handlers' = detach(handlers, s)
          /\ sent' = <<Msg(s, "askName", <<>>)>>
          /\ UNCHANGED awaitingProduct
     ELSE /\ awaitingProduct' = [awaitingProduct EXCEPT ![s] = "true"]
          /\ awaitingConfirmation' = [awaitingConfirmation EXCEPT ![s] = AbsentConf]
          /\ handlers' = detach(handlers, s)
          /\ sent' = <<Msg(s, "askProduct", <<>>)>>
  /\ UNCHANGED <<awaitingPayment, selectedProduct, formData, sessions,
                 sessionsFile, ordersFile>>

\* message.ts:254-283, the reply to "is this the product you were looking for"
simpleConfirmation(s, m) ==
  /\ ~isForm(awaitingConfirmation[s])
  /\ IF isSi(m.content)
     THEN /\ awaitingConfirmation' = [awaitingConfirmation EXCEPT ![s] =
               [AbsentConf EXCEPT !.stage = "basicName"]]
          /\ handlers' = detach(handlers, s)
          /\ sent' = <<Msg(s, "askName", <<>>)>>
          /\ UNCHANGED awaitingProduct
     ELSE IF isNo(m.content)
     THEN /\ awaitingProduct' = [awaitingProduct EXCEPT ![s] = "true"]
          /\ awaitingConfirmation' = [awaitingConfirmation EXCEPT ![s] = AbsentConf]
          /\ handlers' = detach(handlers, s)
          /\ sent' = <<Msg(s, "askProduct", <<>>)>>
     ELSE /\ sent' = <<Msg(s, "onlySiNo", <<>>)>>
          /\ UNCHANGED <<awaitingConfirmation, awaitingProduct, handlers>>
  /\ UNCHANGED <<awaitingPayment, selectedProduct, formData, sessions,
                 sessionsFile, ordersFile>>

\* message.ts:96-285, case 'confirmation'
confirmation(s, m) ==
  LET formState == awaitingConfirmation[s]
  IN \/ basicName(s, m, formState)
     \/ basicId(s, m, formState)
     \/ basicConfirmation(s, m, formState)
     \/ addressBarrio(s, m, formState)
     \/ addressAddress(s, m, formState)
     \/ addressCity(s, m, formState)
     \/ finalConfirmation(s, m, formState)
     \/ simpleConfirmation(s, m)

\* payment as it would be with an else branch at message.ts:515 that asks
\* the sender for the receipt.
paymentReminds(s, m) ==
  /\ IF m.image
     THEN /\ handlers' = suspend([Handler(s, "forward") EXCEPT
                                    !.formDataItem = formData[s],
                                    !.productData = selectedProduct[s]])
          /\ sent' = <<Msg(targetJid, "details", <<>>)>>
     ELSE /\ UNCHANGED handlers
          /\ sent' = <<Msg(s, "payInstructions", <<>>)>>
  /\ UNCHANGED <<awaitingConfirmation, awaitingPayment, awaitingProduct,
                 selectedProduct, formData, sessions, sessionsFile, ordersFile>>

\* message.ts:358-403, case 'payment': a message with an image reads
\* formData[sender] and selectedProduct[sender] and is suspended at the send
\* of the details to the operator; any other message is ignored.
payment(s, m) ==
  /\ IF m.image
     THEN /\ handlers' = suspend([Handler(s, "forward") EXCEPT
                                    !.formDataItem = formData[s],
                                    !.productData = selectedProduct[s]])
          /\ sent' = <<Msg(targetJid, "details", <<>>)>>
     ELSE /\ UNCHANGED handlers
          /\ sent' = <<>>
  /\ UNCHANGED <<awaitingConfirmation, awaitingPayment, awaitingProduct,
                 selectedProduct, formData, sessions, sessionsFile, ordersFile>>

\* message.ts:286-356, case 'product', up to its first await; data.json is
\* in place.  awaitingProductNow is awaitingProduct as the caller left it.
product(s, m, awaitingProductNow) ==
  LET response == normalizeText(m.content)
      found == find(response)
  IN /\ awaitingProduct' = awaitingProductNow
     /\ IF m.content # <<>> /\ found # NoProduct
        THEN /\ selectedProduct' = [selectedProduct EXCEPT ![s] = found]
             /\ handlers' = suspend(Handler(s, "card"))
             /\ sent' = <<>>
        ELSE /\ UNCHANGED <<selectedProduct, handlers>>
             /\ sent' = IF m.content # <<>>
                        THEN <<Msg(s, "notFound", <<>>)>> ELSE <<>>
     /\ UNCHANGED <<awaitingConfirmation, awaitingPayment, formData,
                    ordersFile>>

\* delivery.ts:233-237: the file's content replaces the in-memory object
\* (a file that does not exist yet holds no record).
loadSessions == sessionsFile

\* message.ts:527
welcomeDue(lastTime) ==
  lastTime = Null \/ lastTime = 0 \/ (now - lastTime) > WelcomeTimeout

\* message.ts:563: what awaitingProduct[sender] is when case 'new' calls
\* MessageHandler again.
redispatchedKeepsFlag(awaitingProductOfS) == awaitingProductOfS

redispatched(awaitingProductOfS) == "true"

\* message.ts:80-91 and 560-567: the number of MessageHandler invocations,
\* nested in one another, that one inbound message of sender s starts when
\* awaitingProduct[sender] is as given; counted up to fuel.
RECURSIVE invocations(_, _, _, _)
invocations(s, m, awaitingProductOfS, fuel) ==
  IF fuel = 0 THEN 0
  ELSE IF /\ stageWith(s, awaitingProductOfS) = "new"
          /\ ~welcomeDue(loadSessions[s])
          /\ m.content # <<>>
       THEN 1 + invocations(s, m, redispatched(awaitingProductOfS), fuel - 1)
       ELSE 1

\* message.ts:518-571, case 'new'
new(s, m) ==
  LET loaded == loadSessions
      touched == [loaded EXCEPT ![s] = now]
  IN IF welcomeDue(loaded[s])
     THEN /\ sessions' = touched
          /\ sessionsFile' = touched
          /\ handlers' = suspend(Handler(s, "welcome"))
          /\ sent' = <<Msg(s, "welcome", <<>>)>>
          /\ UNCHANGED <<awaitingConfirmation, awaitingPayment, awaitingProduct,
                         selectedProduct, formData, ordersFile>>
     ELSE IF m.content # <<>>
     THEN \* awaitingProduct[sender] = true, then MessageHandler again, which
          \* resolves the stage 'product'
          /\ sessions' = loaded
          /\ UNCHANGED sessionsFile
          /\ product(s, m, [awaitingProduct EXCEPT ![s] =
                              redispatched(awaitingProduct[s])])
     ELSE /\ sessions' = loaded
          /\ sent' = <<>>
          /\ UNCHANGED <<awaitingConfirmation, awaitingPayment, awaitingProduct,
                         selectedProduct, formData, sessionsFile, ordersFile,
                         handlers>>

\* message.ts:202-203: the message is the "si" of the final confirmation.
checkout(s, m) ==
  /\ awaitingConfirmation[s].stage = "finalConfirmation"
  /\ isSi(m.content)

\* message.ts:80-573: one inbound message of a direct chat, up to the first
\* await of its handling.
MessageHandler(s, m) ==
  /\ UNCHANGED <<sweep, now, INACTIVITY_TIMEOUT>>
  /\ owed' = IF checkout(s, m) THEN [owed EXCEPT ![s] = TRUE] ELSE owed
  /\ evicted' = evicted \ {s}
  /\ CASE stageOf(s) = "confirmation" -> confirmation(s, m)
       [] stageOf(s) = "payment" -> payment(s, m)
       [] stageOf(s) = "product" ->
            product(s, m, awaitingProduct) /\ UNCHANGED <<sessions, sessionsFile>>
       [] OTHER -> new(s, m)

\* ------------------------------------------------------------ the resumes

\* message.ts:308-344: after the product card is sent the mode flips to the
\* simple confirmation; a send that throws is caught at 350.
ProductCard(h, ok) ==
  /\ h.pc = "card"
  /\ IF ok
     THEN /\ awaitingProduct' = [awaitingProduct EXCEPT ![h.s] = "false"]
          /\ awaitingConfirmation' =
               [awaitingConfirmation EXCEPT ![h.s] = TrueConf]
          /\ handlers' = detach(resume(h), h.s)
          /\ sent' = <<Msg(h.s, "card", <<>>), Msg(h.s, "askConfirm", <<>>)>>
     ELSE /\ handlers' = resume(h)
          /\ sent' = <<Msg(h.s, "card", <<>>), Msg(h.s, "productError", <<>>)>>
          /\ UNCHANGED <<awaitingProduct, awaitingConfirmation>>
  /\ UNCHANGED <<awaitingPayment, selectedProduct, formData, sessions,
                 sessionsFile, ordersFile, sweep, now, strays,
                 script, owed, evicted,
                 INACTIVITY_TIMEOUT>>

\* quoteReturn as it would be if a failed quote sent the sender back to the
\* neighborhood question, dropping the address fields.
quoteReturnForgets(h, costo) ==
  /\ h.pc = "quote"
  /\ IF costo # Null
     THEN /\ awaitingConfirmation' =
               IF h.stale THEN awaitingConfirmation
               ELSE [awaitingConfirmation EXCEPT
                       ![h.s].deliveryCost = costo,
                       ![h.s].mapImagePath = MapPath]
          /\ handlers' = resume(h) (+) SetToBag({[h EXCEPT !.pc = "map"]})
          /\ sent' = <<Msg("api", "getImage", <<>>)>>
     ELSE /\ handlers' = resume(h)
          /\ sent' = <<Msg(h.s, "quoteError", <<>>)>>
          /\ awaitingConfirmation' =
               IF h.stale THEN awaitingConfirmation
               ELSE [awaitingConfirmation EXCEPT
                       ![h.s].stage = "addressBarrio",
                       ![h.s].barrio = Undefined,
                       ![h.s].address = Undefined,
                       ![h.s].city = Undefined]
  /\ UNCHANGED <<awaitingPayment, awaitingProduct, selectedProduct, formData,
                 sessions, sessionsFile, ordersFile, sweep, now, strays,
                 owed, evicted,
                 INACTIVITY_TIMEOUT>>

\* message.ts:140-155 and 195-200: the delivery-cost call returns.  On
\* success the cost and the map path are written to the FormState object and
\* the map image is requested; on an error the sender is told.
quoteReturn(h, costo) ==
  /\ h.pc = "quote"
  /\ IF costo # Null
     THEN /\ awaitingConfirmation' =
               IF h.stale THEN awaitingConfirmation
               ELSE [awaitingConfirmation EXCEPT
                       ![h.s].deliveryCost = costo,
                       ![h.s].mapImagePath = MapPath]
          /\ handlers' = resume(h) (+) SetToBag({[h EXCEPT !.pc = "map"]})
          /\ sent' = <<Msg("api", "getImage", <<>>)>>
     ELSE /\ handlers' = resume(h)
          /\ sent' = <<Msg(h.s, "quoteError", <<>>)>>
          /\ UNCHANGED awaitingConfirmation
  /\ UNCHANGED <<awaitingPayment, awaitingProduct, selectedProduct, formData,
                 sessions, sessionsFile, ordersFile, sweep, now, strays,
                 owed, evicted,
                 INACTIVITY_TIMEOUT>>

QuoteReturn(h, costo) == quoteReturn(h, costo) /\ UNCHANGED script

\* How the rest of the city stage (message.ts:155-200) ends: the map is
\* downloaded and sent and the summary is sent; the download or the send of
\* the map throws; the send of the summary throws.
MapOutcomes == {"confirm", "mapFailed", "confirmFailed"}

\* message.ts:155-200: once the map is sent the stage becomes
\* finalConfirmation and the summary is sent; whatever throws ends in the
\* catch at 195, which tells the sender of an error.
MapSent(h, outcome) ==
  /\ h.pc = "map"
  /\ handlers' = resume(h)
  /\ IF outcome = "mapFailed"
     THEN /\ sent' = <<Msg(h.s, "quoteError", <<>>)>>
          /\ UNCHANGED awaitingConfirmation
     ELSE /\ awaitingConfirmation' =
               IF h.stale THEN awaitingConfirmation
               ELSE [awaitingConfirmation EXCEPT
                       ![h.s].stage = "finalConfirmation"]
          /\ sent' = <<Msg(h.s, "mapImage", <<>>),
                       Msg(h.s, IF outcome = "confirm" THEN "confirmOrder"
                                ELSE "quoteError", <<>>)>>
  /\ UNCHANGED <<awaitingPayment, awaitingProduct, selectedProduct, formData,
                 sessions, sessionsFile, ordersFile, sweep, now, strays,
                 script, owed, evicted,
                 INACTIVITY_TIMEOUT>>

\* message.ts:226-233: once the payment instructions are sent the sender is
\* awaiting payment; a send that throws rejects the invocation.
PaySent(h, ok) ==
  /\ h.pc = "paysend"
  /\ IF ok
     THEN /\ awaitingPayment' = [awaitingPayment EXCEPT ![h.s] = "true"]
          /\ awaitingConfirmation' =
               [awaitingConfirmation EXCEPT ![h.s] = AbsentConf]
          /\ handlers' = detach(resume(h), h.s)
     ELSE /\ handlers' = resume(h)
          /\ UNCHANGED <<awaitingPayment, awaitingConfirmation>>
  /\ sent' = <<>>
  /\ UNCHANGED <<awaitingProduct, selectedProduct, formData, sessions,
                 sessionsFile, ordersFile, sweep, now, strays,
                 script, owed, evicted,
                 INACTIVITY_TIMEOUT>>

\* message.ts:535-559: after the welcome and the catalog are sent the
\* sender is awaiting a product (549) and is asked for one; the send of that
\* question (553) changes no state.  A welcome or catalog send that throws
\* rejects the invocation.
WelcomeSent(h, ok) ==
  /\ h.pc = "welcome"
  /\ handlers' = resume(h)
  /\ IF ok
     THEN /\ awaitingProduct' = [awaitingProduct EXCEPT ![h.s] = "true"]
          /\ sent' = <<Msg(h.s, "catalog", <<>>), Msg(h.s, "askProduct", <<>>)>>
     ELSE /\ sent' = <<>>
          /\ UNCHANGED awaitingProduct
  /\ UNCHANGED <<awaitingConfirmation, awaitingPayment, selectedProduct,
                 formData, sessions, sessionsFile, ordersFile, sweep, now,
                 strays, script, owed, evicted,
                 INACTIVITY_TIMEOUT>>

\* ------------------------------------------------------------- the ledger

\* x || y for the texts and the numbers of the payment stage
orText(x, y) == IF x = Undefined \/ x = <<>> THEN y ELSE x
orZero(n) == IF n = Null THEN 0 ELSE n
NA == <<"N", "/", "A">>

\* message.ts:469-491, the argument of createOrder
orderData(s, formDataItem, productData, paymentImagePath) ==
  [customer |->
     [name |-> orText(formDataItem.name, NA),
      idNumber |-> orText(formDataItem.idNumber, NA),
      phone |-> <<"+", s>>,
      address |-> orText(formDataItem.address, NA),
      barrio |-> orText(formDataItem.barrio, NA),
      city |-> orText(formDataItem.city, NA)],
   product |->
     [id |-> productData.ID, name |-> productData.Nombre,
      description |-> productData.Descripcion, price |-> productData.Precio],
   payment |->
     [total |-> IF productData.Precio # Null /\ productData.Precio # 0
                THEN productData.Precio + orZero(formDataItem.deliveryCost)
                ELSE 0,
      productPrice |-> orZero(productData.Precio),
      deliveryCost |-> orZero(formDataItem.deliveryCost),
      imagePath |-> paymentImagePath]]

\* orderService.ts:141-159: the ledger after createOrder(od); saveOrders
\* rewrites the whole file.
createOrder(orders, od) ==
  Append(orders,
         [id |-> Len(orders) + 1, timestamp |-> now, status |-> "new",
          customer |-> od.customer, product |-> od.product,
          payment |-> od.payment])

\* How the forwarding of the receipt (message.ts:403-466) ends: the details
\* cannot be sent; the message is relayed; the relay fails and the
\* thumbnail is sent; the thumbnail fails too and the operator gets a
\* notice; the notice cannot be sent either.
ForwardOutcomes ==
  {"detailsFailed", "relayed", "thumbnail", "notice", "noticeFailed"}

\* message.ts:403-496: the receipt is forwarded, the order is written and
\* the thanks are sent; an error before createOrder ends in the catch at 511.
PaymentForward(h, outcome) ==
  /\ h.pc = "forward"
  /\ IF outcome \in {"detailsFailed", "noticeFailed"}
     THEN /\ handlers' = resume(h)
          /\ sent' = <<Msg(h.s, "paymentProblem", <<>>)>>
          /\ UNCHANGED <<ordersFile, owed>>
     ELSE /\ ordersFile' =
               createOrder(ordersFile,
                           orderData(h.s, h.formDataItem, h.productData, ReceiptPath))
          /\ owed' = [owed EXCEPT ![h.s] = FALSE]
          /\ handlers' = resume(h) (+) SetToBag({[h EXCEPT !.pc = "thanks"]})
          /\ sent' = <<Msg(targetJid, outcome, <<>>), Msg(h.s, "thanks", <<>>)>>
  /\ UNCHANGED <<awaitingConfirmation, awaitingPayment, awaitingProduct,
                 selectedProduct, formData, sessions, sessionsFile, sweep, now,
                 strays, script, evicted,
                 INACTIVITY_TIMEOUT>>

\* PaymentThanks as it would be if the cleanup left the session record in
\* sessions.json.
PaymentThanksKeepsSession(h, ok) ==
  /\ h.pc = "thanks"
  /\ IF ok
     THEN /\ awaitingPayment' = [awaitingPayment EXCEPT ![h.s] = "absent"]
          /\ awaitingProduct' = [awaitingProduct EXCEPT ![h.s] = "absent"]
          /\ awaitingConfirmation' =
               [awaitingConfirmation EXCEPT ![h.s] = AbsentConf]
          /\ selectedProduct' = [selectedProduct EXCEPT ![h.s] = NoProduct]
          /\ formData' = [formData EXCEPT ![h.s] = AbsentFormData]
          /\ sessions' = loadSessions
          /\ UNCHANGED sessionsFile
          /\ handlers' = detach(resume(h), h.s)
          /\ sent' = <<>>
     ELSE /\ handlers' = resume(h)
          /\ sent' = <<Msg(h.s, "paymentProblem", <<>>)>>
          /\ UNCHANGED <<awaitingPayment, awaitingProduct, awaitingConfirmation,
                         selectedProduct, formData, sessions, sessionsFile>>
  /\ UNCHANGED <<ordersFile, sweep, now, strays, script, owed, evicted,
                 INACTIVITY_TIMEOUT>>

\* message.ts:496-514: after the thanks the sender's entries and its session
\* record are deleted; a send that throws ends in the catch and deletes
\* nothing.
PaymentThanks(h, ok) ==
  /\ h.pc = "thanks"
  /\ IF ok
     THEN /\ awaitingPayment' = [awaitingPayment EXCEPT ![h.s] = "absent"]
          /\ awaitingProduct' = [awaitingProduct EXCEPT ![h.s] = "absent"]
          /\ awaitingConfirmation' =
               [awaitingConfirmation EXCEPT ![h.s] = AbsentConf]
          /\ selectedProduct' = [selectedProduct EXCEPT ![h.s] = NoProduct]
          /\ formData' = [formData EXCEPT ![h.s] = AbsentFormData]
          /\ sessions' = [loadSessions EXCEPT ![h.s] = Null]
          /\ sessionsFile' = [loadSessions EXCEPT ![h.s] = Null]
          /\ handlers' = detach(resume(h), h.s)
          /\ sent' = <<>>
     ELSE /\ handlers' = resume(h)
          /\ sent' = <<Msg(h.s, "paymentProblem", <<>>)>>
          /\ UNCHANGED <<awaitingPayment, awaitingProduct, awaitingConfirmation,
                         selectedProduct, formData, sessions, sessionsFile>>
  /\ UNCHANGED <<ordersFile, sweep, now, strays,
                 script, owed, evicted,
                 INACTIVITY_TIMEOUT>>

\* -------------------------------------------------------------- the sweep

\* sessionManager.ts:29-35, over the entries the sweep loaded
expiredSessions(loaded) ==
  {jid \in Senders :
     /\ loaded[jid] # Null /\ loaded[jid] # 0
     /\ (now - loaded[jid]) > INACTIVITY_TIMEOUT}

\* sessionManager.ts:19-41, and 60-62 when nothing has expired: the sessions
\* are loaded, the expired ones are found among the loaded entries and the
\* first notice is sent.
SweepStart ==
  /\ sweep.pc = "idle"
  /\ sessions' = loadSessions
  /\ LET expired == expiredSessions(loadSessions)
     IN IF expired = {}
        THEN /\ sweep' = IdleSweep
             /\ sent' = <<>>
        ELSE \E jid \in expired :
               /\ sweep' = [pc |-> "notifying", expired |-> expired,
                            todo |-> expired \ {jid}]
               /\ sent' = <<Msg(jid, "sessionClosed", <<>>)>>
  /\ UNCHANGED <<awaitingConfirmation, awaitingPayment, awaitingProduct,
                 selectedProduct, formData, sessionsFile, ordersFile, handlers,
                 now, strays, script, owed, evicted,
                 INACTIVITY_TIMEOUT>>

\* sessionManager.ts:29-47: the next expired entry of the loop; a send that
\* throws is caught and the loop goes on.
SweepNotify ==
  /\ sweep.pc = "notifying"
  /\ \E jid \in sweep.todo :
       /\ sweep' = [sweep EXCEPT !.todo = @ \ {jid}]
       /\ sent' = <<Msg(jid, "sessionClosed", <<>>)>>
  /\ UNCHANGED <<awaitingConfirmation, awaitingPayment, awaitingProduct,
                 selectedProduct, formData, sessions, sessionsFile, ordersFile,
                 handlers, now, strays, script, owed, evicted,
                 INACTIVITY_TIMEOUT>>

\* SweepFinish as it would be without the saveSessions() at
\* sessionManager.ts:57.
SweepFinishUnsaved ==
  /\ sweep.pc = "notifying"
  /\ sweep.todo = {}
  /\ sessions' = [jid \in Senders |->
                    IF jid \in sweep.expired THEN Null ELSE sessions[jid]]
  /\ evicted' = evicted \cup {jid \in sweep.expired : sessions[jid] # Null}
  /\ sweep' = IdleSweep
  /\ sent' = <<>>
  /\ UNCHANGED <<awaitingConfirmation, awaitingPayment, awaitingProduct,
                 selectedProduct, formData, sessionsFile, ordersFile, handlers,
                 now, strays, script, owed, INACTIVITY_TIMEOUT>>

\* sessionManager.ts:50-59: the expired jids are deleted from the in-memory
\* object as it is now, which is then written to sessions.json.
SweepFinish ==
  /\ sweep.pc = "notifying"
  /\ sweep.todo = {}
  /\ LET kept == [jid \in Senders |->
                    IF jid \in sweep.expired THEN Null ELSE sessions[jid]]
     IN /\ sessions' = kept
        /\ sessionsFile' = kept
  /\ evicted' = evicted \cup {jid \in sweep.expired : sessions[jid] # Null}
  /\ sweep' = IdleSweep
  /\ sent' = <<>>
  /\ UNCHANGED <<awaitingConfirmation, awaitingPayment, awaitingProduct,
                 selectedProduct, formData, ordersFile, handlers, now,
                 strays, script, owed, INACTIVITY_TIMEOUT>>

\* ------------------------------------------------------- the environment

\* 30 minutes pass.  The clock is read only to compare it with a session
\* record (message.ts:527, sessionManager.ts:31-34), so time is let pass
\* while some record has not yet expired.
Tick ==
  /\ now < MaxTime
  /\ \E s \in Senders :
       /\ sessionsFile[s] # Null
       /\ \/ now - sessionsFile[s] <= INACTIVITY_TIMEOUT
          \/ now - sessionsFile[s] <= WelcomeTimeout
  /\ now' = now + 1
  /\ sent' = <<>>
  /\ UNCHANGED <<awaitingConfirmation, awaitingPayment, awaitingProduct,
                 selectedProduct, formData, sessions, sessionsFile, ordersFile,
                 handlers, sweep, strays, script, owed, evicted,
                 INACTIVITY_TIMEOUT>>

\* The process is stopped and started again: message.ts:65-78 and
\* delivery.ts:231 run anew, the suspended invocations are gone, the files
\* stay.
Restart ==
  /\ awaitingConfirmation' = [s \in Senders |-> AbsentConf]
  /\ awaitingPayment' = [s \in Senders |-> "absent"]
  /\ awaitingProduct' = [s \in Senders |-> "absent"]
  /\ selectedProduct' = [s \in Senders |-> NoProduct]
  /\ formData' = [s \in Senders |-> AbsentFormData]
  /\ sessions' = [s \in Senders |-> Null]
  /\ handlers' = EmptyBag
  /\ sweep' = IdleSweep
  /\ sent' = <<>>
  /\ owed' = [s \in Senders |-> FALSE]
  /\ UNCHANGED <<sessionsFile, ordersFile, now, strays, script, evicted,
                 INACTIVITY_TIMEOUT>>

\* Any message at any time, MaxStray times.
Stray(s, m) ==
  /\ strays < MaxStray
  /\ strays' = strays + 1
  /\ MessageHandler(s, m)
  /\ UNCHANGED script

text(content) == [content |-> content, image |-> FALSE]

\* What a cooperative sender answers at each point of the conversation: the
\* messages of the spec's Scenario A.
walk(s) ==
  LET conf == awaitingConfirmation[s]
  IN CASE conf.stage = "true" -> {text(SI)}
       [] conf.stage = "basicName" -> {text(<<"A", "n", "a">>)}
       [] conf.stage = "basicId" -> {text(<<"1", "2", "3">>)}
       [] conf.stage = "basicConfirmation" -> {text(SI)}
       [] conf.stage = "addressBarrio" -> {text(<<"C", "e", "n">>)}
       [] conf.stage = "addressAddress" -> {text(<<"C", "l", "1">>)}
       [] conf.stage = "addressCity" -> {text(<<"B", "o", "g">>)}
       [] conf.stage = "finalConfirmation" -> {text(SI)}
       [] OTHER ->
            IF awaitingPayment[s] = "true"
            THEN {[content |-> NoContent, image |-> TRUE]}
            ELSE IF awaitingProduct[s] = "true" THEN {text(SI), text(NO)}
            ELSE {text(XX)}

\* The sender that cooperates; the others send strays only.
walker == "a"

\* The cooperative sender waits for the reply to its last message and sends
\* the next message of the walk, until an order is in the ledger.
walkStep(m) ==
  /\ m \in walk(walker)
  /\ \A h \in BagToSet(handlers) : h.s # walker
  /\ ordersFile = <<>>
  /\ MessageHandler(walker, m)
  /\ UNCHANGED strays

Walk(m) == walkStep(m) /\ UNCHANGED script

Next ==
  \/ \E s \in Senders, m \in Messages : Stray(s, m)
  \/ \E m \in walk(walker) : Walk(m)
  \/ \E h \in BagToSet(handlers), ok \in BOOLEAN : ProductCard(h, ok)
  \/ \E h \in BagToSet(handlers), costo \in Costs \cup {Null} : QuoteReturn(h, costo)
  \/ \E h \in BagToSet(handlers), outcome \in MapOutcomes : MapSent(h, outcome)
  \/ \E h \in BagToSet(handlers), ok \in BOOLEAN : PaySent(h, ok)
  \/ \E h \in BagToSet(handlers), ok \in BOOLEAN : WelcomeSent(h, ok)
  \/ \E h \in BagToSet(handlers), outcome \in ForwardOutcomes : PaymentForward(h, outcome)
  \/ \E h \in BagToSet(handlers), ok \in BOOLEAN : PaymentThanks(h, ok)
  \/ SweepStart
  \/ SweepNotify
  \/ SweepFinish
  \/ Tick
  \/ Restart

Spec == Init /\ [][Next]_vars

\* SESSION_INACTIVITY_TIMEOUT set to 30 or to 60 minutes.
InitConfigured == InitWith({1, 2})

\* The program under either setting of SESSION_INACTIVITY_TIMEOUT.
Configured == InitConfigured /\ [][Next]_vars

\* A stray message that the payment stage receives without an image is
\* written down in `script`.
StrayLogged(s, m) ==
  /\ strays < MaxStray
  /\ strays' = strays + 1
  /\ MessageHandler(s, m)
  /\ script' = IF stageOf(s) = "payment" /\ ~m.image
               THEN <<[content |-> m.content, image |-> m.image, costo |-> Null]>>
               ELSE script

NextLogged ==
  \/ \E s \in Senders, m \in Messages : StrayLogged(s, m)
  \/ \E m \in walk(walker) : Walk(m)
  \/ \E h \in BagToSet(handlers), ok \in BOOLEAN : ProductCard(h, ok)
  \/ \E h \in BagToSet(handlers), costo \in Costs \cup {Null} : QuoteReturn(h, costo)
  \/ \E h \in BagToSet(handlers), outcome \in MapOutcomes : MapSent(h, outcome)
  \/ \E h \in BagToSet(handlers), ok \in BOOLEAN : PaySent(h, ok)
  \/ \E h \in BagToSet(handlers), ok \in BOOLEAN : WelcomeSent(h, ok)
  \/ \E h \in BagToSet(handlers), outcome \in ForwardOutcomes : PaymentForward(h, outcome)
  \/ \E h \in BagToSet(handlers), ok \in BOOLEAN : PaymentThanks(h, ok)
  \/ SweepStart
  \/ SweepNotify
  \/ SweepFinish
  \/ Tick
  \/ Restart

Logged == Init /\ [][NextLogged]_vars

\* The forwardings after which createOrder is called.
Forwarded == ForwardOutcomes \ {"detailsFailed", "noticeFailed"}

\* message.ts:403-496 when fs.writeFileSync throws in saveOrders
\* (orderService.ts:131-138): the catch there logs the error, createOrder
\* returns the order it built (orderService.ts:151-158) and the handler
\* goes on to the thanks; orders.json is as it was.
PaymentForwardUnwritten(h, outcome) ==
  /\ h.pc = "forward"
  /\ outcome \in Forwarded
  /\ handlers' = resume(h) (+) SetToBag({[h EXCEPT !.pc = "thanks"]})
  /\ sent' = <<Msg(targetJid, outcome, <<>>), Msg(h.s, "thanks", <<>>)>>
  /\ UNCHANGED <<awaitingConfirmation, awaitingPayment, awaitingProduct,
                 selectedProduct, formData, sessions, sessionsFile, ordersFile,
                 sweep, now, strays, script, owed, evicted, INACTIVITY_TIMEOUT>>

\* The disk may refuse the write of orders.json.
NextFaulty ==
  \/ Next
  \/ \E h \in BagToSet(handlers), outcome \in Forwarded :
       PaymentForwardUnwritten(h, outcome)

Faulty == Init /\ [][NextFaulty]_vars

\* What an error thrown out of an un-awaited async call does to the
\* in-memory state: the rejection goes unhandled, and the process either
\* goes on (exits = FALSE) or ends and is started again with the maps of
\* message.ts:65-78 empty (exits = TRUE), as the runtime is set up.
rejected(exits) ==
  IF exits
  THEN /\ awaitingConfirmation' = [s \in Senders |-> AbsentConf]
       /\ awaitingPayment' = [s \in Senders |-> "absent"]
       /\ awaitingProduct' = [s \in Senders |-> "absent"]
       /\ selectedProduct' = [s \in Senders |-> NoProduct]
       /\ formData' = [s \in Senders |-> AbsentFormData]
       /\ sessions' = [s \in Senders |-> Null]
       /\ handlers' = EmptyBag
       /\ sweep' = IdleSweep
       /\ owed' = [s \in Senders |-> FALSE]
  ELSE UNCHANGED <<awaitingConfirmation, awaitingPayment, awaitingProduct,
                   selectedProduct, formData, sessions, handlers, sweep, owed>>

\* message.ts:518-522 when sessions.json cannot be parsed: JSON.parse throws
\* in loadSessions (delivery.ts:233-237), which has no try/catch, and so
\* does MessageHandler at its first statement of case 'new'; nothing is
\* sent and nothing is written.
MessageHandlerUnreadable(s, m, exits) ==
  /\ strays < MaxStray
  /\ strays' = strays + 1
  /\ stageOf(s) = "new"
  /\ rejected(exits)
  /\ sent' = <<>>
  /\ evicted' = evicted \ {s}
  /\ UNCHANGED <<sessionsFile, ordersFile, now, script, INACTIVITY_TIMEOUT>>

\* sessionManager.ts:19-23 when sessions.json cannot be parsed: the
\* loadSessions() of checkExpiredSessions throws out of the timer callback.
checkExpiredSessionsUnreadable(exits) ==
  /\ sweep.pc = "idle"
  /\ rejected(exits)
  /\ sent' = <<>>
  /\ UNCHANGED <<sessionsFile, ordersFile, now, strays, script, evicted,
                 INACTIVITY_TIMEOUT>>

\* sessions.json may be unreadable at the time of a read.
NextUnreadable ==
  \/ Next
  \/ \E s \in Senders, m \in Messages, exits \in BOOLEAN :
       MessageHandlerUnreadable(s, m, exits)
  \/ \E exits \in BOOLEAN : checkExpiredSessionsUnreadable(exits)

Unreadable == Init /\ [][NextUnreadable]_vars

\* message.ts:518-531 when fs.writeFileSync throws in saveSessions
\* (delivery.ts:239-241, no try/catch): the record is in the in-memory
\* object, sessions.json is as it was, and MessageHandler throws before the
\* welcome at 535.  sessions.json exists (it holds a record), so that the
\* next loadSessions replaces the in-memory object.
MessageHandlerUnsaved(s, m, exits) ==
  /\ strays < MaxStray
  /\ strays' = strays + 1
  /\ stageOf(s) = "new"
  /\ welcomeDue(loadSessions[s])
  /\ \E jid \in Senders : sessionsFile[jid] # Null
  /\ IF exits
     THEN rejected(TRUE)
     ELSE /\ sessions' = [loadSessions EXCEPT ![s] = now]
          /\ UNCHANGED <<awaitingConfirmation, awaitingPayment, awaitingProduct,
                         selectedProduct, formData, handlers, sweep, owed>>
  /\ sent' = <<>>
  /\ evicted' = evicted \ {s}
  /\ UNCHANGED <<sessionsFile, ordersFile, now, script, INACTIVITY_TIMEOUT>>

\* message.ts:496-514 when the saveSessions() at 509 throws: the sender's
\* entries are deleted already (499-503), the record is deleted from the
\* in-memory object only, and the catch at 511 tells the sender of a problem.
PaymentThanksUnsaved(h) ==
  /\ h.pc = "thanks"
  /\ loadSessions[h.s] # Null
  /\ awaitingPayment' = [awaitingPayment EXCEPT ![h.s] = "absent"]
  /\ awaitingProduct' = [awaitingProduct EXCEPT ![h.s] = "absent"]
  /\ awaitingConfirmation' = [awaitingConfirmation EXCEPT ![h.s] = AbsentConf]
  /\ selectedProduct' = [selectedProduct EXCEPT ![h.s] = NoProduct]
  /\ formData' = [formData EXCEPT ![h.s] = AbsentFormData]
  /\ sessions' = [loadSessions EXCEPT ![h.s] = Null]
  /\ handlers' = detach(resume(h), h.s)
  /\ sent' = <<Msg(h.s, "paymentProblem", <<>>)>>
  /\ UNCHANGED <<sessionsFile, ordersFile, sweep, now, strays, script, owed,
                 evicted, INACTIVITY_TIMEOUT>>

\* The disk may refuse the write of sessions.json.
NextUnsaved ==
  \/ Next
  \/ \E s \in Senders, m \in Messages, exits \in BOOLEAN :
       MessageHandlerUnsaved(s, m, exits)
  \/ \E h \in BagToSet(handlers) : PaymentThanksUnsaved(h)

Unsaved == Init /\ [][NextUnsaved]_vars

\* message.ts:100-136 when the bot.sendMessage of the stage throws (the
\* connection is down): the assignments to the FormState object are made
\* already (101-102, 106-107, 116, 120, 128-129, 133-134), the error leaves
\* MessageHandler through no catch, and the rejection goes unhandled
\* (part_000:80).  The message is the next one of the cooperative sender;
\* the failed send is written down in `script`.
MessageHandlerUnsent(s, m, exits) ==
  /\ s = walker
  /\ m \in walk(s)
  /\ \A h \in BagToSet(handlers) : h.s # s
  /\ ordersFile = <<>>
  /\ awaitingConfirmation[s].stage
       \in FormStages \ {"addressCity", "finalConfirmation"}
  /\ IF exits
     THEN /\ rejected(TRUE)
          /\ sent' = <<>>
          /\ evicted' = evicted \ {s}
          /\ UNCHANGED <<sessionsFile, ordersFile, now, INACTIVITY_TIMEOUT>>
     ELSE MessageHandler(s, m)
  /\ script' = <<[unsent |-> s]>>
  /\ UNCHANGED strays

\* A send to a customer may fail.
NextUnsent ==
  \/ Next
  \/ \E m \in walk(walker), exits \in BOOLEAN :
       MessageHandlerUnsent(walker, m, exits)

Unsent == Init /\ [][NextUnsent]_vars

\* The cooperative sender in a hurry: it sends the next message of the walk
\* while the reply to a product query is still on its way (the invocation is
\* suspended in message.ts:308-343), at most one message ahead.
WalkHasty(m) ==
  /\ m \in walk(walker)
  /\ ordersFile = <<>>
  /\ LET mine == {h \in BagToSet(handlers) : h.s = walker}
     IN /\ mine # {}
        /\ \A h \in mine : h.pc = "card" /\ handlers[h] = 1
        /\ Cardinality(mine) = 1
  /\ MessageHandler(walker, m)
  /\ UNCHANGED <<strays, script>>

\* The customers do not always wait for the reply.
NextHasty ==
  \/ Next
  \/ \E m \in walk(walker) : WalkHasty(m)

Hasty == Init /\ [][NextHasty]_vars

\* A product query that is part of no name, description or identifier of
\* the catalog.
Queries == {text(<<"u", "l", "l">>)}

\* The senders also send such queries.
NextQueries ==
  \/ Next
  \/ \E s \in Senders, m \in Queries : Stray(s, m)

Searches == Init /\ [][NextQueries]_vars

\* The chats a message may come from (message.key.remoteJid): the direct
\* chats of the senders, a group and the status broadcast.
Groups == {"g@g.us"}
Jids == Senders \cup Groups \cup {"status@broadcast"}

\* part_000:72-73
isGroup(remoteJid) == remoteJid \in Groups
isStatus(remoteJid) == remoteJid = "status@broadcast"

\* ignored as it would be without the guard of message.ts:82-84.
ignoredByChatOnly(remoteJid, fromMe) == isGroup(remoteJid) \/ isStatus(remoteJid)

\* part_000:75 and message.ts:82-84: the listener returns on a message of a
\* group or of the status broadcast, MessageHandler on one the bot wrote.
ignored(remoteJid, fromMe) ==
  isGroup(remoteJid) \/ isStatus(remoteJid) \/ fromMe

\* part_000:68-84 and message.ts:80-84: one message of the upsert event, of
\* any chat; an ignored one is written down in `script`.
Upsert(remoteJid, m, fromMe) ==
  /\ strays < MaxStray
  /\ strays' = strays + 1
  /\ IF ignored(remoteJid, fromMe)
     THEN /\ sent' = <<>>
          /\ script' = <<[remoteJid |-> remoteJid, fromMe |-> fromMe]>>
          /\ UNCHANGED <<awaitingConfirmation, awaitingPayment, awaitingProduct,
                         selectedProduct, formData, sessions, sessionsFile,
                         ordersFile, handlers, sweep, now, owed, evicted,
                         INACTIVITY_TIMEOUT>>
     ELSE /\ remoteJid \in Senders
          /\ MessageHandler(remoteJid, m)
          /\ UNCHANGED script

\* The messages of every chat meet the customers' conversations. An ignored
\* message is dropped before a map, a file or the clock is read, so the
\* clock stands still here and the sweep is left to the other
\* specifications.
NextSources ==
  \/ \E remoteJid \in Jids, m \in Messages, fromMe \in BOOLEAN :
       Upsert(remoteJid, m, fromMe)
  \/ \E m \in walk(walker) : Walk(m)
  \/ \E h \in BagToSet(handlers), ok \in BOOLEAN : ProductCard(h, ok)
  \/ \E h \in BagToSet(handlers), costo \in Costs \cup {Null} : QuoteReturn(h, costo)
  \/ \E h \in BagToSet(handlers), outcome \in MapOutcomes : MapSent(h, outcome)
  \/ \E h \in BagToSet(handlers), ok \in BOOLEAN : PaySent(h, ok)
  \/ \E h \in BagToSet(handlers), ok \in BOOLEAN : WelcomeSent(h, ok)
  \/ \E h \in BagToSet(handlers), outcome \in ForwardOutcomes : PaymentForward(h, outcome)
  \/ \E h \in BagToSet(handlers), ok \in BOOLEAN : PaymentThanks(h, ok)
  \/ Restart

Sources == Init /\ [][NextSources]_vars

\* A delivery-cost service whose quote depends on the city it is asked for:
\* result.costo for the body {direccion, barrio, ciudad} of the request
\* (message.ts:140-144).
tarifa(body) == IF body[3] = <<"B", "o", "g">> THEN 5 ELSE 6

\* message.ts:80-573 as MessageHandler has it, the body of the request of the
\* city stage kept with the invocation that is suspended at `await
\* axios.post` (message.ts:140) and waits for its answer.
MessageHandlerAsking(s, m) ==
  IF awaitingConfirmation[s].stage = "addressCity"
  THEN LET formState == awaitingConfirmation[s]
           body == <<formState.address, formState.barrio, trimmed(m.content)>>
       IN /\ awaitingConfirmation' = [awaitingConfirmation EXCEPT ![s] =
               [formState EXCEPT !.city = trimmed(m.content)]]
          /\ handlers' = suspend([body |-> body] @@ Handler(s, "quote"))
          /\ sent' = <<Msg("api", "calculate", body)>>
          /\ evicted' = evicted \ {s}
          /\ UNCHANGED <<awaitingPayment, awaitingProduct, selectedProduct,
                         formData, sessions, sessionsFile, ordersFile, sweep,
                         now, owed, INACTIVITY_TIMEOUT>>
  ELSE MessageHandler(s, m)

\* The event loop of Next with that service: every answer to a request is
\* the quote for the body of that request, or an error.
NextQuoted ==
  \/ \E s \in Senders, m \in Messages :
       /\ strays < MaxStray
       /\ strays' = strays + 1
       /\ MessageHandlerAsking(s, m)
       /\ UNCHANGED script
  \/ \E m \in walk(walker) :
       /\ \A h \in BagToSet(handlers) : h.s # walker
       /\ ordersFile = <<>>
       /\ MessageHandlerAsking(walker, m)
       /\ UNCHANGED <<strays, script>>
  \/ \E h \in BagToSet(handlers), ok \in BOOLEAN :
       /\ h.pc = "quote"
       /\ QuoteReturn(h, IF ok THEN tarifa(h.body) ELSE Null)
  \/ \E h \in BagToSet(handlers), ok \in BOOLEAN : ProductCard(h, ok)
  \/ \E h \in BagToSet(handlers), outcome \in MapOutcomes : MapSent(h, outcome)
  \/ \E h \in BagToSet(handlers), ok \in BOOLEAN : PaySent(h, ok)
  \/ \E h \in BagToSet(handlers), ok \in BOOLEAN : WelcomeSent(h, ok)
  \/ \E h \in BagToSet(handlers), outcome \in ForwardOutcomes : PaymentForward(h, outcome)
  \/ \E h \in BagToSet(handlers), ok \in BOOLEAN : PaymentThanks(h, ok)
  \/ SweepStart
  \/ SweepNotify
  \/ SweepFinish
  \/ Tick
  \/ Restart

Quoted == Init /\ [][NextQuoted]_vars

\* A sender that is asked for its city, has the reply to its last message
\* and writes again, whatever it thinks of.
Insist(s, m) ==
  /\ awaitingConfirmation[s].stage = "addressCity"
  /\ \A h \in BagToSet(handlers) : h.s # s
  /\ MessageHandler(s, m)
  /\ UNCHANGED <<strays, script>>

\* message.ts:140 and 195-200: the delivery-cost call throws.
QuoteFails == \E h \in BagToSet(handlers) : QuoteReturn(h, Null)

\* The process keeps running and the delivery-cost service answers no
\* request for the neighborhood and address the sender has given.
NextFailing ==
  \/ \E s \in Senders, m \in Messages : Stray(s, m)
  \/ \E m \in walk(walker) : Walk(m)
  \/ \E s \in Senders, m \in Messages : Insist(s, m)
  \/ \E h \in BagToSet(handlers), ok \in BOOLEAN : ProductCard(h, ok)
  \/ QuoteFails
  \/ \E h \in BagToSet(handlers), ok \in BOOLEAN : WelcomeSent(h, ok)
  \/ SweepStart
  \/ SweepNotify
  \/ SweepFinish
  \/ Tick

\* Every call the process awaits returns (axios rejects on an error
\* response, message.ts:195), and the sender tries every kind of message
\* again and again: whatever message could take it out of the city
\* question is sent there sooner or later.
Failing ==
  /\ Init
  /\ [][NextFailing]_vars
  /\ WF_vars(QuoteFails)
  /\ \A s \in Senders, m \in Messages : SF_vars(Insist(s, m))

\* When the last inbound message of s was handled (Date.now() at its
\* MessageHandler call), as `script` keeps it; Null before the first one.
heardAt(s) == IF script = <<>> THEN Null ELSE script[1][s]

\* MessageHandler, the time of the call written down.
MessageHandlerHeard(s, m) ==
  /\ MessageHandler(s, m)
  /\ script' = <<[x \in Senders |-> IF x = s THEN now ELSE heardAt(x)]>>

\* The event loop of Next, the time of each sender's last message kept.
NextHeard ==
  \/ \E s \in Senders, m \in Messages :
       /\ strays < MaxStray
       /\ strays' = strays + 1
       /\ MessageHandlerHeard(s, m)
  \/ \E m \in walk(walker) :
       /\ \A h \in BagToSet(handlers) : h.s # walker
       /\ ordersFile = <<>>
       /\ MessageHandlerHeard(walker, m)
       /\ UNCHANGED strays
  \/ \E h \in BagToSet(handlers), ok \in BOOLEAN : ProductCard(h, ok)
  \/ \E h \in BagToSet(handlers), costo \in Costs \cup {Null} : QuoteReturn(h, costo)
  \/ \E h \in BagToSet(handlers), outcome \in MapOutcomes : MapSent(h, outcome)
  \/ \E h \in BagToSet(handlers), ok \in BOOLEAN : PaySent(h, ok)
  \/ \E h \in BagToSet(handlers), ok \in BOOLEAN : WelcomeSent(h, ok)
  \/ \E h \in BagToSet(handlers), outcome \in ForwardOutcomes : PaymentForward(h, outcome)
  \/ \E h \in BagToSet(handlers), ok \in BOOLEAN : PaymentThanks(h, ok)
  \/ SweepStart
  \/ SweepNotify
  \/ SweepFinish
  \/ Tick
  \/ Restart

Heard == Init /\ [][NextHeard]_vars

\* The longest batch of one upsert event.
MaxBatch == 2

\* part_000:68: an upsert event arrives; `script` holds the messages the
\* loop of the listener has not looked at yet.
UpsertBatch(batch) ==
  /\ script = <<>>
  /\ strays < MaxStray
  /\ strays' = strays + 1
  /\ script' = batch
  /\ sent' = <<>>
  /\ UNCHANGED <<awaitingConfirmation, awaitingPayment, awaitingProduct,
                 selectedProduct, formData, sessions, sessionsFile,
                 ordersFile, handlers, sweep, now, owed, evicted,
                 INACTIVITY_TIMEOUT>>

\* part_000:69-82: one turn of the loop. `return` on a message of a group or
\* of the status broadcast (75) leaves the listener, and the rest of the
\* batch with it. MessageHandler is called without await (80), so the turn
\* ends at the first await of the handling.
ListenerTurn ==
  /\ script # <<>>
  /\ script' = IF isGroup(script[1].remoteJid) \/ isStatus(script[1].remoteJid)
               THEN <<>>
               ELSE Tail(script)
  /\ UNCHANGED strays
  /\ LET message == script[1]
     IN IF isGroup(message.remoteJid) \/ isStatus(message.remoteJid)
        THEN /\ sent' = <<>>
             /\ UNCHANGED <<awaitingConfirmation, awaitingPayment, awaitingProduct,
                            selectedProduct, formData, sessions, sessionsFile,
                            ordersFile, handlers, sweep, now, owed, evicted,
                            INACTIVITY_TIMEOUT>>
        ELSE MessageHandler(message.remoteJid, message.m)

\* The loop of the listener is synchronous: nothing else runs between two
\* of its turns. One upsert event carries one to MaxBatch messages, each of
\* any chat ({ messages }, part_000:68).
NextBatches ==
  \/ script = <<>> /\ Next
  \/ \E n \in 1..MaxBatch :
       \E batch \in [1..n -> [remoteJid : Jids, m : Messages]] : UpsertBatch(batch)
  \/ ListenerTurn

Batched == Init /\ [][NextBatches]_vars

\* ------------------------------------------------------------- the ledger

\* Order['status'] (orderService.ts:16)
Statuses == {"new", "processing", "completed", "cancelled"}

\* What the optional argument attendedBy of updateOrderStatus may be.
Attendants == {Undefined, <<"o", "p">>}

\* The optional fields of an order (orderService.ts:39-40); a field an
\* order does not have reads as undefined.
attendedByOf(order) ==
  IF "attendedBy" \in DOMAIN order THEN order.attendedBy ELSE Undefined
attendedTimestampOf(order) ==
  IF "attendedTimestamp" \in DOMAIN order THEN order.attendedTimestamp ELSE Null

\* A read of orders.json made before any writer has written: what a writer
\* would hold if its read and its write were two steps with the other
\* writers in between.
loadOrdersEarly == <<>>

\* orderService.ts:99-128: the content of orders.json, read in the same
\* synchronous call that uses it.
loadOrders == ordersFile

\* orderService.ts:167, Array.prototype.findIndex: the first order with
\* that id, 0 for -1.
findIndex(orders, orderId) ==
  IF \E i \in 1..Len(orders) : orders[i].id = orderId
  THEN CHOOSE i \in 1..Len(orders) :
         /\ orders[i].id = orderId
         /\ \A k \in 1..(i - 1) : orders[k].id # orderId
  ELSE 0

\* orderService.ts:171-176: the order after the assignments.
attended(order, status, attendedBy) ==
  IF status = "completed" /\ attendedBy # Undefined /\ attendedBy # <<>>
  THEN [k \in DOMAIN order \cup {"attendedBy", "attendedTimestamp"} |->
          CASE k = "status" -> status
            [] k = "attendedBy" -> attendedBy
            [] k = "attendedTimestamp" -> now
            [] OTHER -> order[k]]
  ELSE [order EXCEPT !.status = status]

\* An update that also stamps the order with the time of the update.
updateOrderStatusStamps(orders, orderId, status, attendedBy) ==
  LET orderIndex == findIndex(orders, orderId)
  IN IF orderIndex = 0 THEN orders
     ELSE [orders EXCEPT ![orderIndex] =
             [attended(orders[orderIndex], status, attendedBy)
                EXCEPT !.timestamp = now]]

\* orderService.ts:162-187: the ledger after updateOrderStatus.
updateOrderStatus(orders, orderId, status, attendedBy) ==
  LET orderIndex == findIndex(orders, orderId)
  IN IF orderIndex = 0 THEN orders
     ELSE [orders EXCEPT ![orderIndex] = attended(orders[orderIndex], status, attendedBy)]

\* The criteria the summaries are asked with: a status or none, a least
\* total or none. A criterion that is not given is falsy, as "" and 0
\* are, and filters nothing (orderService.ts:203, 220).
Criterias ==
  [status : {"", "new", "cancelled"}, minTotal : {0, 10}]

\* orderService.ts:197-227: the orders of the ledger that pass every
\* criterion given, in the order of the file.
searchOrders(criteria) ==
  LET passes(order) ==
        /\ ~(criteria.status # "" /\ order.status # criteria.status)
        /\ ~(criteria.minTotal # 0 /\ order.payment.total < criteria.minTotal)
  IN SelectSeq(loadOrders, passes)

\* A callback that adds the money of the cancelled orders as well.
accumulateAll(summary, order) ==
  [summary EXCEPT
     !.countByStatus[order.status] = @ + 1,
     !.totalRevenue = @ + order.payment.total,
     !.totalProductSales = @ + order.payment.productPrice,
     !.totalDeliveryCost = @ + order.payment.deliveryCost]

\* orderService.ts:246-256: the callback of filteredOrders.forEach.
accumulate(summary, order) ==
  LET counted == [summary EXCEPT !.countByStatus[order.status] = @ + 1]
  IN IF order.status # "cancelled"
     THEN [counted EXCEPT
             !.totalRevenue = @ + order.payment.total,
             !.totalProductSales = @ + order.payment.productPrice,
             !.totalDeliveryCost = @ + order.payment.deliveryCost]
     ELSE counted

\* Array.prototype.forEach over the matched orders, from the first.
RECURSIVE forEach(_, _)
forEach(filteredOrders, summary) ==
  IF filteredOrders = <<>> THEN summary
  ELSE forEach(Tail(filteredOrders), accumulate(summary, Head(filteredOrders)))

\* orderService.ts:230-269; the average is kept as the pair of the
\* dividend and the divisor of line 259.
getSalesSummary(criteria) ==
  LET filteredOrders == searchOrders(criteria)
      totals == forEach(filteredOrders,
                        [countByStatus |-> [st \in Statuses |-> 0],
                         totalRevenue |-> 0, totalProductSales |-> 0,
                         totalDeliveryCost |-> 0])
      totalOrders == Len(filteredOrders)
  IN [totalOrders |-> totalOrders,
      totalRevenue |-> totals.totalRevenue,
      totalProductSales |-> totals.totalProductSales,
      totalDeliveryCost |-> totals.totalDeliveryCost,
      avgOrderValue |-> IF totalOrders > 0
                        THEN <<totals.totalRevenue, totalOrders>>
                        ELSE <<0, 1>>,
      countByStatus |-> totals.countByStatus]

\* The pending-payment record of a sender that has completed the form.
formDataOf(s) ==
  [present |-> TRUE, name |-> <<"A", "n", "a">>, idNumber |-> <<"1", "2", "3">>,
   barrio |-> <<"C", "e", "n">>, address |-> <<"C", "l", "1">>,
   city |-> <<"B", "o", "g">>, deliveryCost |-> 5]

\* message.ts:469-491: the payment stage of sender s calls createOrder for
\* the product of row i; nothing is awaited between the read and the write
\* of orders.json (orderService.ts:142-152).
CreateOrder(s, i) ==
  /\ Len(ordersFile) < MaxOrders
  /\ ordersFile' =
       createOrder(loadOrders, orderData(s, formDataOf(s), data[i], ReceiptPath))
  /\ sent' = <<>>
  /\ UNCHANGED <<awaitingConfirmation, awaitingPayment, awaitingProduct,
                 selectedProduct, formData, sessions, sessionsFile, handlers,
                 sweep, now, strays, script, owed, evicted, INACTIVITY_TIMEOUT>>

\* orderService.ts:162-187: the operator's side sets the status of an order;
\* the call is synchronous as well.
UpdateOrderStatus(orderId, status, attendedBy) ==
  /\ ordersFile' = updateOrderStatus(loadOrders, orderId, status, attendedBy)
  /\ sent' = <<>>
  /\ UNCHANGED <<awaitingConfirmation, awaitingPayment, awaitingProduct,
                 selectedProduct, formData, sessions, sessionsFile, handlers,
                 sweep, now, strays, script, owed, evicted, INACTIVITY_TIMEOUT>>

\* Time passes. The time before the first order shifts every timestamp
\* alike and the time after the last one is read by nothing, so the clock
\* runs between the two; the ledger copies the clock and never measures
\* it, so one tick per order tells the timestamps apart.
Later ==
  /\ now < MaxTime
  /\ 0 < Len(ordersFile) /\ Len(ordersFile) < MaxOrders
  /\ now <= Len(ordersFile)
  /\ now' = now + 1
  /\ sent' = <<>>
  /\ UNCHANGED <<awaitingConfirmation, awaitingPayment, awaitingProduct,
                 selectedProduct, formData, sessions, sessionsFile, ordersFile,
                 handlers, sweep, strays, script, owed, evicted,
                 INACTIVITY_TIMEOUT>>

\* The row of the catalog each sender has chosen (message.ts:306).
choiceOf(s) == IF s = "a" THEN 1 ELSE 2

\* The ledger alone: orders are created and their status is set, in any
\* order.
NextLedger ==
  \/ \E s \in Senders : CreateOrder(s, choiceOf(s))
  \/ \E orderId \in 1..(MaxOrders + 1), status \in Statuses, attendedBy \in Attendants :
       UpdateOrderStatus(orderId, status, attendedBy)
  \/ Later

Ledger == Init /\ [][NextLedger]_vars

\* orderService.ts:141-152 when orders.json is there and readFileSync or
\* JSON.parse throws in loadOrders: the catch at 112 or 122 logs, loadOrders
\* returns [] (126-127), the order is pushed onto that array and saveOrders
\* writes it over the file.
CreateOrderUnread(s, i) ==
  /\ Len(ordersFile) < MaxOrders
  /\ ordersFile' =
       createOrder(<<>>, orderData(s, formDataOf(s), data[i], ReceiptPath))
  /\ sent' = <<>>
  /\ UNCHANGED <<awaitingConfirmation, awaitingPayment, awaitingProduct,
                 selectedProduct, formData, sessions, sessionsFile, handlers,
                 sweep, now, strays, script, owed, evicted, INACTIVITY_TIMEOUT>>

\* The ledger when a read of orders.json may fail.
NextUnread ==
  \/ NextLedger
  \/ \E s \in Senders : CreateOrderUnread(s, choiceOf(s))

Unread == Init /\ [][NextUnread]_vars

\* Replies written with an accent: "sí" and "SÍ".
Accented == {text(<<"s", "í">>), text(<<"S", "Í">>)}

\* The senders also send accented replies.
NextReplies ==
  \/ Next
  \/ \E s \in Senders, m \in Accented : Stray(s, m)

Replies == Init /\ [][NextReplies]_vars

\* ------------------------------------------------------------- Scenario A

\* The outcomes of a call awaited for sender s in Scenario A: no transport
\* failure and a successful quote for the cooperative sender.
okOf(s) == IF s = walker THEN {TRUE} ELSE BOOLEAN
costsOf(s) == IF s = walker THEN Costs ELSE Costs \cup {Null}
mappedOf(s) == IF s = walker THEN {"confirm"} ELSE MapOutcomes
forwardedOf(s) ==
  IF s = walker THEN {"relayed", "thumbnail", "notice"} ELSE ForwardOutcomes

entry(m, costo) == [content |-> m.content, image |-> m.image, costo |-> costo]

WalkA(m) ==
  /\ walkStep(m)
  /\ script' = Append(script, entry(m, Null))

QuoteReturnA(h, costo) ==
  /\ quoteReturn(h, costo)
  /\ script' = IF h.s = walker
               THEN Append(script, entry(text(NoContent), costo)) ELSE script

\* The cooperative sender alone with the timers and the other senders'
\* strays: every message of sender `walker` is the next one of the walk,
\* nothing awaited for it fails and the process keeps running.
NextA ==
  \/ \E s \in Senders \ {walker}, m \in Messages : Stray(s, m)
  \/ \E m \in walk(walker) : WalkA(m)
  \/ \E h \in BagToSet(handlers) : \E ok \in okOf(h.s) : ProductCard(h, ok)
  \/ \E h \in BagToSet(handlers) : \E costo \in costsOf(h.s) : QuoteReturnA(h, costo)
  \/ \E h \in BagToSet(handlers) : \E outcome \in mappedOf(h.s) : MapSent(h, outcome)
  \/ \E h \in BagToSet(handlers) : \E ok \in okOf(h.s) : PaySent(h, ok)
  \/ \E h \in BagToSet(handlers) : \E ok \in okOf(h.s) : WelcomeSent(h, ok)
  \/ \E h \in BagToSet(handlers) : \E outcome \in forwardedOf(h.s) :
       PaymentForward(h, outcome)
  \/ \E h \in BagToSet(handlers) : \E ok \in okOf(h.s) : PaymentThanks(h, ok)
  \/ SweepStart
  \/ SweepNotify
  \/ SweepFinish
  \/ Tick

ScenarioA == Init /\ [][NextA]_vars

\* ================================================================ claims

inFlight(s) == {h \in BagToSet(handlers) : h.s = s}

\* The modes of a sender (message.ts:86-91 reads them by truthiness).
AwaitingOrderConfirmation(s) == awaitingConfirmation[s].stage # "absent"
AwaitingPayment(s) == awaitingPayment[s] = "true"
AwaitingProductChoice(s) == awaitingProduct[s] = "true"
FormProgress(s) == isForm(awaitingConfirmation[s])

\* C1: no two MessageHandler invocations for the same sender are in
\* progress at the same time.
C1_Serialized ==
  \A s \in Senders :
    \A h1, h2 \in inFlight(s) : h1 = h2 /\ handlers[h1] = 1

\* C2: each sender has at most one of the modes AwaitingOrderConfirmation,
\* AwaitingPayment and AwaitingProductChoice active.
C2_OneMode ==
  \A s \in Senders :
    /\ ~(AwaitingOrderConfirmation(s) /\ AwaitingPayment(s))
    /\ ~(AwaitingOrderConfirmation(s) /\ AwaitingProductChoice(s))
    /\ ~(AwaitingPayment(s) /\ AwaitingProductChoice(s))

\* C3: every order of the ledger has
\* payment.total = payment.productPrice + payment.deliveryCost.
C3_TotalIsSum ==
  \A i \in 1..Len(ordersFile) :
    ordersFile[i].payment.total =
      ordersFile[i].payment.productPrice + ordersFile[i].payment.deliveryCost

ordersOf(orders, s) ==
  {i \in 1..Len(orders) : orders[i].customer.phone = <<"+", s>>}

\* C4: an order is written for a sender only when a "si" of that sender at
\* FinalConfirm has no order yet, so that each such "si" results in at most
\* one order.
C4_OneOrderPerCheckout ==
  [][\A s \in Senders :
       ordersOf(ordersFile', s) # ordersOf(ordersFile, s) => owed[s]]_vars

\* The walk is over: the order is in the ledger and nothing is in progress
\* for the cooperative sender.
ScenarioDone == ordersFile # <<>> /\ inFlight(walker) = {}

cleared(s) ==
  /\ awaitingConfirmation[s] = AbsentConf
  /\ awaitingPayment[s] = "absent"
  /\ awaitingProduct[s] = "absent"
  /\ selectedProduct[s] = NoProduct
  /\ formData[s] = AbsentFormData

C6_QuoteRetry ==
  [][/\ \A h \in BagToSet(handlers) :
          (h.pc = "quote" /\ QuoteReturn(h, Null)) =>
            /\ awaitingConfirmation'[h.s] = awaitingConfirmation[h.s]
            /\ sent' = <<Msg(h.s, "quoteError", <<>>)>>
     /\ \A s \in Senders :
          awaitingConfirmation[s].stage = "addressCity" =>
            \A m \in Messages \cup walk(s) :
              MessageHandler(s, m) =>
                LET before == awaitingConfirmation[s]
                    after == awaitingConfirmation'[s]
                IN /\ sent' = <<Msg("api", "calculate",
                                    <<before.address, before.barrio, after.city>>)>>
                   /\ after.stage = "addressCity"
                   /\ after.name = before.name
                   /\ after.idNumber = before.idNumber
                   /\ after.barrio = before.barrio
                   /\ after.address = before.address]_vars

\* C6: the quote of a sender at the city stage has just failed, with the
\* neighborhood and the address collected.
C6_Failed ==
  \E s \in Senders :
    /\ sent = <<Msg(s, "quoteError", <<>>)>>
    /\ inFlight(s) = {}
    /\ awaitingConfirmation[s].stage = "addressCity"
    /\ awaitingConfirmation[s].deliveryCost = Null
    /\ awaitingConfirmation[s].barrio = <<"C", "e", "n">>
    /\ awaitingConfirmation[s].address = <<"C", "l", "1">>
    /\ awaitingConfirmation[s].city = <<"B", "o", "g">>

\* C7: whenever nothing is in progress for a sender, a defined deliveryCost
\* in its FormProgress comes with the stage FinalConfirm.
C7_CostOnlyAtFinalConfirm ==
  \A s \in Senders :
    (inFlight(s) = {} /\ awaitingConfirmation[s].deliveryCost # Null) =>
      awaitingConfirmation[s].stage = "finalConfirmation"

\* The sweep sends the inactivity notice to s in this step.
notifies(s) ==
  /\ sweep' # sweep
  /\ sent' = <<Msg(s, "sessionClosed", <<>>)>>

\* The sweep deletes the session record of s in this step.
evicts(s) == s \in evicted' \ evicted

\* C8: a step of the sweep that sends the inactivity notice to a sender, or
\* deletes its session record, leaves that sender neither awaiting payment
\* nor with a FormProgress.
C8_SweepSparesActive ==
  [][\A s \in Senders :
       (notifies(s) \/ evicts(s)) =>
         ~(AwaitingPayment(s)' \/ FormProgress(s)')]_vars

\* C9: the first message of a sender after the sweep evicted it is answered
\* with the welcome.
C9_FreshAfterEviction ==
  [][\A s \in Senders :
       (s \in evicted /\ s \notin evicted') =>
         sent' = <<Msg(s, "welcome", <<>>)>>]_vars

\* C10: a restart of the process leaves a sender that is awaiting payment
\* or in the form at the stage it was at, so that its next message is handled
\* at that stage.
C10_ResumesAfterRestart ==
  [][Restart =>
       \A s \in Senders :
         /\ AwaitingPayment(s) => AwaitingPayment(s)'
         /\ FormProgress(s) =>
              awaitingConfirmation'[s].stage = awaitingConfirmation[s].stage]_vars

\* The welcome is what the step sends to s.
welcomed(s) == sent' = <<Msg(s, "welcome", <<>>)>>

\* C11: a message of a sender in no mode is answered with the welcome
\* exactly when the sender has no session record or its record is older than
\* the configured timeout, the threshold of the sweep.
C11_OneTimeout ==
  [][\A s \in Senders :
       stageOf(s) = "new" =>
         \A m \in Messages \cup walk(s) :
           MessageHandler(s, m) =>
             (welcomed(s) <=>
                \/ sessionsFile[s] = Null
                \/ now - sessionsFile[s] > INACTIVITY_TIMEOUT)]_vars

\* C12: the step that ends a sweep leaves no session record of a sender that
\* sweep found expired, so that a sweep run next finds none of them; a sweep
\* sends no notice to a sender that a sweep evicted and that has sent
\* nothing since, and leaves no record of it; a sweep that finds nothing
\* expired leaves sessions.json as it is.
C12_SweepIdempotent ==
  [][/\ SweepFinish =>
          \A jid \in sweep.expired :
            sessionsFile'[jid] = Null /\ jid \notin expiredSessions(sessionsFile')
     /\ (SweepStart \/ SweepNotify \/ SweepFinish) =>
          \A s \in evicted : ~notifies(s) /\ sessionsFile'[s] = Null
     /\ (SweepStart /\ expiredSessions(loadSessions) = {}) =>
          sessionsFile' = sessionsFile /\ sweep' = IdleSweep]_vars

\* C12: a sweep has evicted a sender, nothing has been heard of it since and
\* the next sweep can start.
C12_SweptOnce ==
  /\ evicted # {}
  /\ sweep = IdleSweep
  /\ sent = <<>>
  /\ expiredSessions(loadSessions) = {}

\* C13: a "no" at the confirmation of the basic data moves the form back to
\* the stage that collects the name and leaves neither the name nor the
\* identification entered before in the form.
C13_NoDiscardsBasics ==
  [][\A s \in Senders :
       awaitingConfirmation[s].stage = "basicConfirmation" =>
         \A m \in Messages \cup walk(s) :
           (isNo(m.content) /\ MessageHandler(s, m)) =>
             /\ awaitingConfirmation'[s].stage = "basicName"
             /\ awaitingConfirmation'[s].name = Undefined
             /\ awaitingConfirmation'[s].idNumber = Undefined]_vars

\* The points at which the sender is asked to answer si or no.
ConfirmationPoints == {"true", "basicConfirmation", "finalConfirmation"}

\* The step takes the "si" transition of the confirmation point sender s is at.
siTaken(s) ==
  CASE awaitingConfirmation[s].stage = "true" ->
         awaitingConfirmation'[s].stage = "basicName"
    [] awaitingConfirmation[s].stage = "basicConfirmation" ->
         awaitingConfirmation'[s].stage = "addressBarrio"
    [] OTHER -> sent' = <<Msg(s, "payInstructions", <<>>)>>

\* The step takes the "no" transition of the confirmation point sender s is at.
noTaken(s) ==
  CASE awaitingConfirmation[s].stage = "basicConfirmation" ->
         awaitingConfirmation'[s].stage = "basicName"
    [] OTHER -> /\ awaitingConfirmation'[s].stage = "absent"
                /\ awaitingProduct'[s] = "true"

\* C14: at each confirmation point a reply whose normalised text (lower case,
\* accents removed) is "si" takes the "si" transition and one whose
\* normalised text is "no" takes the "no" transition.
C14_NormalisedReply ==
  [][\A s \in Senders :
       awaitingConfirmation[s].stage \in ConfirmationPoints =>
         \A m \in Messages \cup walk(s) \cup Accented :
           MessageHandler(s, m) =>
             /\ normalizeText(m.content) = SI => siTaken(s)
             /\ normalizeText(m.content) = NO => noTaken(s)]_vars

\* C15: a "no" at the simple product confirmation leaves the sender without
\* a selected product and in the mode that awaits a product choice.
C15_NoClearsProduct ==
  [][\A s \in Senders :
       awaitingConfirmation[s].stage = "true" =>
         \A m \in Messages \cup walk(s) :
           (isNo(m.content) /\ MessageHandler(s, m)) =>
             /\ selectedProduct'[s] = NoProduct
             /\ stageOf(s)' = "product"]_vars

\* C16: a "no" at the final confirmation leaves the sender without form,
\* without selected product and without pending-payment record, in the mode
\* that awaits a product choice, and writes no order.
C16_NoAtFinalConfirm ==
  [][\A s \in Senders :
       awaitingConfirmation[s].stage = "finalConfirmation" =>
         \A m \in Messages \cup walk(s) :
           (isNo(m.content) /\ MessageHandler(s, m)) =>
             /\ awaitingConfirmation'[s] = AbsentConf
             /\ selectedProduct'[s] = NoProduct
             /\ formData'[s] = AbsentFormData
             /\ stageOf(s)' = "product"
             /\ ordersFile' = ordersFile
             /\ sent' = <<Msg(s, "askProductAgain", <<>>)>>]_vars

\* C16: the "no" has been answered at the final confirmation of a form that
\* held a quote for a selected product.
C16_Cancelled ==
  \E s \in Senders :
    /\ sent = <<Msg(s, "askProductAgain", <<>>)>>
    /\ awaitingProduct[s] = "true"
    /\ awaitingConfirmation[s] = AbsentConf
    /\ selectedProduct[s] = NoProduct

\* What the claims call the state of sender s: its mode, its form with the
\* stage and the fields, its selected product, its pending-payment record
\* and its session record.
stateOf(s) ==
  << awaitingConfirmation[s], awaitingPayment[s], awaitingProduct[s],
     selectedProduct[s], formData[s], sessions[s], sessionsFile[s] >>

\* C17: at each confirmation point a reply that is neither "si" nor "no" is
\* answered with the request to reply si or no only and leaves the mode, the
\* stage, the fields of the form, the selected product and the session
\* record of the sender as they were.
C17_OtherReplyReprompts ==
  [][\A s \in Senders :
       awaitingConfirmation[s].stage \in ConfirmationPoints =>
         \A m \in Messages \cup walk(s) :
           (normalizeText(m.content) \notin {SI, NO} /\ MessageHandler(s, m)) =>
             /\ sent' = <<Msg(s, "onlySiNo", <<>>)>>
             /\ stateOf(s)' = stateOf(s)
             /\ ordersFile' = ordersFile]_vars

\* C17: a reply at the final confirmation has been answered with the request
\* to reply si or no only.
C17_Reprompted ==
  \E s \in Senders :
    /\ sent = <<Msg(s, "onlySiNo", <<>>)>>
    /\ awaitingConfirmation[s].stage = "finalConfirmation"

\* The stages that collect one field of the form.
CollectingStages ==
  {"basicName", "basicId", "addressBarrio", "addressAddress", "addressCity"}

\* C18: at each stage that collects a field, a message that carries no text
\* (an image, a blank text) leaves the stage where it is and stores nothing
\* in the form.
C18_EmptyFieldReprompted ==
  [][\A s \in Senders :
       awaitingConfirmation[s].stage \in CollectingStages =>
         \A m \in Messages \cup walk(s) :
           (trimmed(m.content) = <<>> /\ MessageHandler(s, m)) =>
             awaitingConfirmation'[s] = awaitingConfirmation[s]]_vars

\* C19: while the payment receipt is awaited, a message without an image
\* changes nothing: the mode, the selected product, the pending-payment
\* record, the session record and the ledger stay as they were, no
\* invocation is suspended and nothing is sent.
C19_NoImageIgnored ==
  [][\A s \in Senders :
       stageOf(s) = "payment" =>
         \A m \in Messages \cup walk(s) :
           (~m.image /\ MessageHandler(s, m)) =>
             /\ stateOf(s)' = stateOf(s)
             /\ ordersFile' = ordersFile
             /\ handlers' = handlers
             /\ sent' = <<>>]_vars

\* C19: the walker awaits the payment receipt and the last message it sent,
\* one without an image, was received there; nothing was sent.
C19_Ignored ==
  /\ stageOf(walker) = "payment"
  /\ script # <<>>
  /\ strays > 0
  /\ \A s \in Senders \ {walker} : sessionsFile[s] = Null /\ s \notin evicted
  /\ sent = <<>>

\* The messages of a sequence of sends.
Range(seq) == {seq[i] : i \in 1..Len(seq)}

\* C20: when the write of the order to the ledger fails while a payment is
\* handled, the customer is sent the notice of a problem and not the thanks,
\* and the operator is sent a notice of the failure.
C20_WriteFailureReported ==
  [][\A h \in BagToSet(handlers), outcome \in Forwarded :
       PaymentForwardUnwritten(h, outcome) =>
         /\ Msg(h.s, "paymentProblem", <<>>) \in Range(sent')
         /\ Msg(targetJid, "orderProblem", <<>>) \in Range(sent')
         /\ Msg(h.s, "thanks", <<>>) \notin Range(sent')]_vars

\* The forwardings in which bot.relayMessage has failed (message.ts:429).
RelayFailed == {"thumbnail", "notice", "noticeFailed"}

\* C21: when the relay of the receipt to the operator fails, the operator is
\* sent the thumbnail or else the notice that asks for a manual follow-up,
\* and the order is written to the ledger.
C21_FallbackKeepsOrder ==
  [][\A h \in BagToSet(handlers), outcome \in RelayFailed :
       PaymentForward(h, outcome) =>
         /\ \/ Msg(targetJid, "thumbnail", <<>>) \in Range(sent')
            \/ Msg(targetJid, "notice", <<>>) \in Range(sent')
         /\ Len(ordersFile') = Len(ordersFile) + 1]_vars

\* C22: a message of a sender in no mode that arrives while sessions.json
\* cannot be read or parsed is handled as a first contact: the sender is
\* sent the welcome and gets a session record.
C22_UnreadableStoreFailsOpen ==
  [][\A s \in Senders, m \in Messages, exits \in BOOLEAN :
       MessageHandlerUnreadable(s, m, exits) =>
         /\ welcomed(s)
         /\ sessionsFile'[s] = now]_vars

\* C23: a first contact whose session record cannot be saved is still
\* answered with the welcome, and a completed order whose session record
\* cannot be deleted from sessions.json still leaves the sender without
\* mode, selected product, form and pending-payment record.
C23_UnsavedStoreDelivers ==
  [][/\ \A s \in Senders, m \in Messages, exits \in BOOLEAN :
          MessageHandlerUnsaved(s, m, exits) => welcomed(s)
     /\ \A h \in BagToSet(handlers) :
          PaymentThanksUnsaved(h) => cleared(h.s)']_vars

\* A field of a catalog row contains the query: an empty cell contains
\* nothing.
contains(field, response) ==
  field # Undefined /\ includes(normalizeText(field), response)

\* The rows whose name, description or identifier contains the query.
hits(response) ==
  {i \in 1..Len(data) :
     \/ contains(data[i].Nombre, response)
     \/ contains(data[i].Descripcion, response)
     \/ contains(data[i].ID, response)}

\* C24: a query received in the product stage selects the first row of the
\* catalog whose normalised name, description or identifier contains the
\* normalised query, and is answered with not-found, the mode and the
\* selected product staying as they were, exactly when no row has such a
\* field; once the card of the product found is sent, the sender is asked to
\* confirm it.
C24_FirstMatch ==
  [][/\ \A s \in Senders :
          stageOf(s) = "product" =>
            \A m \in Messages \cup walk(s) \cup Queries :
              (m.content # <<>> /\ MessageHandler(s, m)) =>
                LET response == normalizeText(m.content)
                IN IF hits(response) = {}
                   THEN /\ sent' = <<Msg(s, "notFound", <<>>)>>
                        /\ stageOf(s)' = "product"
                        /\ selectedProduct'[s] = selectedProduct[s]
                   ELSE /\ selectedProduct'[s] =
                             data[CHOOSE i \in hits(response) :
                                    \A k \in hits(response) : i <= k]
                        /\ Handler(s, "card") \in BagToSet(handlers')
     /\ \A h \in BagToSet(handlers) :
          (h.pc = "card" /\ ProductCard(h, TRUE)) =>
            AwaitingOrderConfirmation(h.s)']_vars

\* C25: one inbound message starts at most two nested invocations of
\* MessageHandler: the invocation that case 'new' starts resolves the stage
\* 'product' and starts none.
C25_SinglePass ==
  \A s \in Senders, m \in Messages :
    invocations(s, m, awaitingProduct[s], MaxDepth) <= 2

\* C25: a message of a sender in no mode has been handed on to the product
\* stage while the welcome of the sender was still being sent.
C25_Redispatched ==
  \E s \in Senders :
    /\ sent = <<Msg(s, "notFound", <<>>)>>
    /\ awaitingProduct[s] = "true"
    /\ \E h \in inFlight(s) : h.pc = "welcome"

\* C26: a message of a group chat, of the status broadcast or written by the
\* bot itself changes no mode, form, selected product, pending-payment
\* record or session record of any sender, writes no order, suspends no
\* invocation and sends nothing.
C26_FilteredSourcesInert ==
  [][\A remoteJid \in Jids, m \in Messages, fromMe \in BOOLEAN :
       ((isGroup(remoteJid) \/ isStatus(remoteJid) \/ fromMe)
          /\ Upsert(remoteJid, m, fromMe)) =>
         /\ \A s \in Senders : stateOf(s)' = stateOf(s)
         /\ UNCHANGED <<sessions, sessionsFile, ordersFile, handlers>>
         /\ sent' = <<>>]_vars

\* C26: the last message the listener ignored was written by the bot itself
\* in the chat of a sender that awaits an order confirmation.
C26_Ignored ==
  \E s \in Senders :
    /\ script = <<[remoteJid |-> s, fromMe |-> TRUE]>>
    /\ strays > 0
    /\ AwaitingOrderConfirmation(s)
    /\ sent = <<>>

\* C27: updateOrderStatus changes the status of the order it names, and
\* attendedBy and attendedTimestamp with it, and nothing else: whatever
\* ledger the earlier updates have left, after one more update every order
\* has the id, timestamp, customer, product and payment it had, every other
\* order is as it was, and for an id the ledger does not hold the ledger is
\* as it was.
C27_StatusOnly ==
  \A orderId \in 1..(MaxOrders + 1), status \in Statuses,
     attendedBy \in Attendants :
    LET updated == updateOrderStatus(loadOrders, orderId, status, attendedBy)
    IN /\ Len(updated) = Len(ordersFile)
       /\ \A i \in 1..Len(ordersFile) :
            /\ updated[i].id = ordersFile[i].id
            /\ updated[i].timestamp = ordersFile[i].timestamp
            /\ updated[i].customer = ordersFile[i].customer
            /\ updated[i].product = ordersFile[i].product
            /\ updated[i].payment = ordersFile[i].payment
            /\ ordersFile[i].id # orderId => updated[i] = ordersFile[i]
       /\ (\A i \in 1..Len(ordersFile) : ordersFile[i].id # orderId) =>
            updated = ordersFile

\* An order has been completed by an attendant some time after it was
\* created, next to an order nobody has touched.
C27_Updated ==
  \E i, k \in 1..Len(ordersFile) :
    /\ ordersFile[i].status = "completed"
    /\ attendedByOf(ordersFile[i]) = <<"o", "p">>
    /\ attendedTimestampOf(ordersFile[i]) > ordersFile[i].timestamp
    /\ ordersFile[k].status = "new"

\* The sum of one payment field over the orders at the given places.
RECURSIVE paid(_, _, _)
paid(orders, places, field) ==
  IF places = {} THEN 0
  ELSE LET i == CHOOSE i \in places : TRUE
       IN orders[i].payment[field] + paid(orders, places \ {i}, field)

\* C28: the three sums of getSalesSummary run over exactly the matched
\* orders that are not cancelled, while countByStatus counts every matched
\* order, the cancelled ones too, so that its four counts add up to the
\* number of matched orders.
C28_SummarySums ==
  \A criteria \in Criterias :
    LET matched == searchOrders(criteria)
        live == {i \in 1..Len(matched) : matched[i].status # "cancelled"}
        summary == getSalesSummary(criteria)
    IN /\ summary.totalRevenue = paid(matched, live, "total")
       /\ summary.totalProductSales = paid(matched, live, "productPrice")
       /\ summary.totalDeliveryCost = paid(matched, live, "deliveryCost")
       /\ \A st \in Statuses :
            summary.countByStatus[st] =
              Cardinality({i \in 1..Len(matched) : matched[i].status = st})
       /\ summary.countByStatus["new"] + summary.countByStatus["processing"]
            + summary.countByStatus["completed"]
            + summary.countByStatus["cancelled"] = Len(matched)

\* The ledger holds a paid order that is cancelled next to one that is
\* not: the summary counts both and adds up the money of one.
C28_CancelledCounted ==
  LET summary == getSalesSummary([status |-> "", minTotal |-> 0])
  IN /\ summary.totalOrders = 2
     /\ summary.countByStatus["cancelled"] = 1
     /\ summary.totalRevenue = 15
     /\ \A i \in 1..Len(ordersFile) : ordersFile[i].payment.total = 15

\* The order createOrder returns to the handler h (orderService.ts:143-158).
newOrder(h) ==
  LET orders == createOrder(loadOrders,
                            orderData(h.s, h.formDataItem, h.productData, ReceiptPath))
  IN orders[Len(orders)]

\* C29: once createOrder has returned an order to the payment stage, a
\* search of the ledger with no criteria holds exactly one record with the
\* id of that order, and the record equals the order in customer, product,
\* payment, timestamp and the status new.
C29_RoundTrip ==
  [][\A h \in BagToSet(handlers), outcome \in Forwarded :
       (PaymentForward(h, outcome) \/ PaymentForwardUnwritten(h, outcome)) =>
         LET o == newOrder(h)
             found == searchOrders([status |-> "", minTotal |-> 0])'
             hit == {i \in 1..Len(found) : found[i].id = o.id}
         IN /\ Cardinality(hit) = 1
            /\ \A i \in hit :
                 /\ found[i].customer = o.customer
                 /\ found[i].product = o.product
                 /\ found[i].payment = o.payment
                 /\ found[i].timestamp = o.timestamp
                 /\ found[i].status = "new"]_vars

C31_AppendOnly ==
  [][\A s \in Senders :
       (CreateOrder(s, choiceOf(s)) \/ CreateOrderUnread(s, choiceOf(s))) =>
         /\ Len(ordersFile') = Len(ordersFile) + 1
         /\ SubSeq(ordersFile', 1, Len(ordersFile)) = ordersFile]_vars

\* FormState['stage'] (message.ts:18-25) in the order of the form.
place(stage) ==
  LET StageOrder ==
        <<"basicName", "basicId", "basicConfirmation", "addressBarrio",
          "addressAddress", "addressCity", "finalConfirmation">>
  IN CHOOSE i \in 1..Len(StageOrder) : StageOrder[i] = stage

\* C32: while a sender has a form its stage stays or moves to the next
\* stage of the form, one stage per step; the one step back is from the
\* confirmation of the basics to the name, and it is taken on a "no" of that
\* sender only.
C32_ForwardOnly ==
  [][\A s \in Senders :
       (FormProgress(s) /\ FormProgress(s)') =>
         LET from == awaitingConfirmation[s].stage
             to == awaitingConfirmation'[s].stage
         IN \/ place(to) = place(from)
            \/ place(to) = place(from) + 1
            \/ /\ from = "basicConfirmation"
               /\ to = "basicName"
               /\ \E m \in Messages : isNo(m.content) /\ MessageHandler(s, m)]_vars

\* A sender is back at the name with the name of the first round still in
\* its form.
C32_SteppedBack ==
  \E s \in Senders :
    /\ awaitingConfirmation[s].stage = "basicName"
    /\ awaitingConfirmation[s].name # Undefined

\* C33: the state of a conversation is committed after the send of the
\* stage has completed: when the send fails, the sender's mode, stage and
\* collected fields are what they were before the message was handled.
C33_CommitAfterSend ==
  [][\A s \in Senders, exits \in BOOLEAN :
       \A m \in walk(s) :
         MessageHandlerUnsent(s, m, exits) => stateOf(s)' = stateOf(s)]_vars

\* What the conversation engine keeps of sender s: its mode, form, product,
\* pending-payment record and session record.
kept(s) ==
  << awaitingConfirmation[s], awaitingPayment[s], awaitingProduct[s],
     selectedProduct[s], formData[s], sessionsFile[s] >>

\* C34: the handling of a message of one sender, also one that ends in an
\* error, leaves the mode, form, product, pending-payment record and session
\* record of every other sender as they were.
C34_SenderIsolation ==
  [][\A s \in Senders :
       \A m \in Messages \cup walk(s) :
         (MessageHandler(s, m)
            \/ \E exits \in BOOLEAN : MessageHandlerUnsent(s, m, exits)) =>
           \A other \in Senders \ {s} : kept(other)' = kept(other)]_vars

\* C35: the form of a sender is discarded by that sender's "no" at the
\* final confirmation, by its "si" there (once the payment instructions are
\* sent) and by the completion of its order, and by nothing else while the
\* process runs: not by a product lookup that finishes late, a sweep or
\* another sender's message.
C35_OnlyNoCancels ==
  [][\A s \in Senders :
       (FormProgress(s) /\ ~FormProgress(s)') =>
         \/ Restart
         \/ /\ awaitingConfirmation[s].stage = "finalConfirmation"
            /\ \E m \in Messages : isNo(m.content) /\ MessageHandler(s, m)
         \/ \E h \in inFlight(s) : PaySent(h, TRUE) \/ PaymentThanks(h, TRUE)]_vars

\* C36: every message of a direct chat in a batch is dispatched to
\* MessageHandler, wherever the messages of groups and of the status
\* broadcast stand in the batch: when a turn of the listener ends the
\* batch, no message of a direct chat is left in it unlooked at.
C36_DirectDispatched ==
  [][(ListenerTurn /\ script' = <<>>) =>
       \A i \in 2..Len(script) :
         isGroup(script[i].remoteJid) \/ isStatus(script[i].remoteJid)]_vars

\* C37: whenever a sender is at the final confirmation, the delivery cost
\* its form holds is the quote of the service for the address, neighborhood
\* and city the form holds, also when the sender wrote several cities before
\* the first quote came back.
C37_QuoteOfStoredCity ==
  \A s \in Senders :
    LET formState == awaitingConfirmation[s]
    IN formState.stage = "finalConfirmation" =>
         formState.deliveryCost =
           tarifa(<<formState.address, formState.barrio, formState.city>>)

\* C38: a sweep does not undo a refresh made while it was between its load
\* and its save. A record the sweep found expired and that is not expired
\* now was written by the welcome path since the load (the clock never
\* goes back); it is in sessions.json after the sweep as it was before.
C38_RefreshSurvivesSweep ==
  [][SweepFinish =>
       \A jid \in sweep.expired :
         (sessionsFile[jid] # Null /\ now - sessionsFile[jid] <= INACTIVITY_TIMEOUT) =>
           sessionsFile'[jid] = sessionsFile[jid]]_vars

\* C39: no sender is stuck in the form. A sender asked for its city whose
\* neighborhood and address make every quote fail, and that tries every
\* message, leaves the form: it is awaiting a product choice or idle again.
C39_LeavesForm ==
  \A s \in Senders :
    (awaitingConfirmation[s].stage = "addressCity") ~> ~FormProgress(s)

\* C40: the sweep sends no inactivity notice to, and deletes no session
\* record of, a sender whose last inbound message was handled less than the
\* idle timeout ago, whatever mode or form stage the sender is in.
C40_ActiveSenderSpared ==
  [][\A s \in Senders :
       (heardAt(s) # Null /\ now - heardAt(s) < INACTIVITY_TIMEOUT) =>
         ~(notifies(s) \/ evicts(s))]_vars

====
